---- MODULE Spec2Model ----
(***************************************************************************)
(* The concurrent web-research pipeline of ai-web-search-fastapi:          *)
(*   app.search -> search_web (alru_cache) -> WebThinkerAgent.search ->    *)
(*   webscraper (get_news_urls, fetch_article fan-out) -> FAISS index ->   *)
(*   gather_extracted_info (Semaphore(5)) -> summarization model call.     *)
(* Every action is one step of the asyncio event loop: the code that runs  *)
(* between two suspension points of a task.                                *)
(***************************************************************************)
EXTENDS Integers, Sequences, FiniteSets, TLC

\* ------------------------------------------------------------------ bounds
NumCalls == 2        \* top-level calls of search_web
NumRequests == 2     \* distinct Request objects
MaxResponse == 7     \* results in a search-service answer
MaxFetch == 3        \* URLs of a fetch fan-out checked alone
MaxChunks == 6       \* chunks of an extraction stage checked alone
NUMBER_OF_POINTS == 2  \* k of similarity_search, read from the environment
MaxDocs == 3         \* strings handed to an index step checked alone
MaxFragments == 2    \* fragments of a text handed to the cleaner
MaxTokens == 20      \* tokens of a text handed to the cleaner
MaxElements == 2     \* elements of an HTML document handed to the parser
MaxPieces == 3       \* pieces of a text handed to one method of the cleaner
MaxBlanks == 6       \* tokens of a text handed to _clean_whitespace

\* ------------------------------------------------------- program constants
MaxUrls == 6         \* the [:6] of get_news_urls
SemaphoreSize == 5   \* asyncio.Semaphore(5)
StatusOK == 200

Calls == 1..NumCalls
Requests == 1..NumRequests
Queries == {"ipl match today", "IPL match today"}

Range(s) == {s[i] : i \in DOMAIN s}

RECURSIVE SeqsUpTo(_, _)
\* all sequences over S of length at most n
SeqsUpTo(S, n) ==
  IF n = 0 THEN {<<>>}
  ELSE LET shorter == SeqsUpTo(S, n - 1)
       IN  shorter \cup {Append(s, x) : s \in shorter, x \in S}

\* all orders in which the elements of the set S can be listed
RECURSIVE Orders(_)
Orders(S) ==
  IF S = {} THEN {<<>>}
  ELSE UNION {{<<x>> \o t : t \in Orders(S \ {x})} : x \in S}

\* ------------------------------------------------------------------- URLs
\* A URL string is kept as its parts: scheme, host, article number, extension.
Url(scheme, host, path, ext) ==
  [scheme |-> scheme, host |-> host, path |-> path, ext |-> ext]

EmptyString == Url("", "", 0, "")
GoodUrl(i) == Url("https://", "news.example.org", i, ".html")
SkipUrl == Url("https://", "uplegisassembly.gov.in", 0, ".html")

\* the ineligible URLs a search service can list
BadUrls ==
  { Url("http://", "news.example.org", 1, ".html"),
    Url("https://", "news.example.org", 1, ".pdf"),
    Url("https://", "news.example.org", 1, ".PDF"),
    Url("https://", "www.youtube.com", 1, ""),
    Url("https://", "www.netflix.com", 1, ".html"),
    SkipUrl }

\* str.lower() on an extension
Lower(ext) ==
  CASE ext = ".PDF" -> ".pdf"
    [] OTHER -> ext

\* the blocklisted domains that occur as substrings of a host name
DomainsIn(host) ==
  CASE host = "www.youtube.com" -> {"youtube.com"}
    [] host = "www.netflix.com" -> {"x.com"}
    [] OTHER -> {}

Blocklist ==
  {"britannica.com", "youtube.com", "youtu.be", "instagram.com",
   "facebook.com", "twitter.com", "x.com"}

skip_set == {SkipUrl}

\* one result of the search service: a dict with or without the key "url"
Result(u) == [url |-> u]
NoUrlResult == [title |-> "untitled"]

\* result.get("url", "")
GetUrl(result) == IF "url" \in DOMAIN result THEN result.url ELSE EmptyString

\* Eligible comparing the extension without lower()
EligibleCaseSensitive(result) ==
  /\ GetUrl(result).scheme = "https://"
  /\ result.url.ext # ".pdf"
  /\ \A domain \in Blocklist : domain \notin DomainsIn(result.url.host)
  /\ result.url \notin skip_set

\* the condition of the list comprehension of get_news_urls
Eligible(result) ==
  /\ GetUrl(result).scheme = "https://"
  /\ Lower(result.url.ext) # ".pdf"
  /\ \A domain \in Blocklist : domain \notin DomainsIn(result.url.host)
  /\ result.url \notin skip_set

\* the list comprehension: the eligible URLs in the order of the results
Filtered(results) ==
  LET F[n \in 0..Len(results)] ==
        IF n = 0 THEN <<>>
        ELSE IF Eligible(results[n]) THEN Append(F[n - 1], results[n].url)
        ELSE F[n - 1]
  IN  F[Len(results)]

\* urls[:6]
Truncate(urls) == SubSeq(urls, 1, IF Len(urls) < MaxUrls THEN Len(urls) ELSE MaxUrls)

\* list(set(urls)): the distinct URLs, in an order the hash seed decides
ListOfSet(urls) == Orders(Range(urls))

\* the rest of get_news_urls on the decoded results: the lists it can return
FilterUrls(results) == ListOfSet(Truncate(Filtered(results)))

\* ---------------------------------------------- the search service's answer
\* fault: "none", "transport" (session.get raises) or "json" (response.json()
\* raises); status and results matter when nothing is raised
Answer(fault, status, results) ==
  [fault |-> fault, status |-> status, results |-> results]
NoAnswer == Answer("unset", 0, <<>>)

BadResults == {Result(u) : u \in BadUrls} \cup {NoUrlResult}

NumGood(results) ==
  Cardinality({i \in DOMAIN results : Eligible(results[i])})
DistinctGood(results) ==
  Cardinality({GetUrl(results[i]) : i \in {j \in DOMAIN results : Eligible(results[j])}})
NumBadIn(results) == Len(results) - NumGood(results)

\* One more result. Eligible URLs are interchangeable for the code, so a list
\* names them in the order of their first occurrence. A list either repeats
\* eligible URLs or holds one ineligible result among different eligible ones.
Extensions(s) ==
  {Append(s, Result(GoodUrl(DistinctGood(s) + 1)))}
  \cup (IF NumBadIn(s) = 0
        THEN {Append(s, Result(GoodUrl(i))) : i \in 1..DistinctGood(s)}
        ELSE {})
  \cup (IF NumBadIn(s) = 0 /\ DistinctGood(s) = NumGood(s)
        THEN {Append(s, b) : b \in BadResults}
        ELSE {})

\* the result lists of length at most n
RECURSIVE ResultLists(_)
ResultLists(n) ==
  IF n = 0 THEN {<<>>}
  ELSE LET shorter == ResultLists(n - 1)
       IN  shorter \cup UNION {Extensions(s) : s \in {t \in shorter : Len(t) = n - 1}}

\* what the search service can answer with at most n results
Answers(n) ==
  {Answer("transport", 0, <<>>), Answer("json", StatusOK, <<>>),
   Answer("none", 503, <<>>)}
  \cup {Answer("none", StatusOK, r) : r \in ResultLists(n)}

\* ------------------------------------------------------- fetch_article
\* What happens to one GET: exc is the set of classes of the exception raised
\* by the session lookup, session.get or response.text() ({} when none is),
\* status the response status, parsed the value of parse_html_content.
FetchEvent(exc, status, parsed) == [exc |-> exc, status |-> status, parsed |-> parsed]
NoEvent == FetchEvent({}, 0, "unset")

FetchEvents ==
  { FetchEvent({"AttributeError"}, 0, "unset"),
    FetchEvent({"TimeoutError"}, 0, "unset"),
    FetchEvent({"ClientError"}, 0, "unset"),
    FetchEvent({"ClientError", "TimeoutError"}, 0, "unset"),
    FetchEvent({"UnicodeDecodeError"}, StatusOK, "unset"),
    FetchEvent({}, 404, "unset"),
    FetchEvent({}, StatusOK, "None"),
    FetchEvent({}, StatusOK, "text") }

\* The string fetch_article returns, kept as its parts: the marker in front
\* (kind), the status inside it, the cleaned text (named by the call that
\* fetched it, 0 for none) and the URL at its end.
Outcome(kind, status, text, url) ==
  [kind |-> kind, status |-> status, text |-> text, url |-> url]
Pending == Outcome("pending", 0, 0, EmptyString)

\* the try block of fetch_article: a returned string, or the exception raised
FetchTry(url, ev, c) ==
  IF ev.exc # {} THEN [raised |-> ev.exc, value |-> Pending]
  ELSE IF ev.status # StatusOK
    THEN [raised |-> {}, value |-> Outcome("[Fetch Failed: ", ev.status, 0, url)]
  ELSE IF ev.parsed \in {"None", ""}
    THEN [raised |-> {}, value |-> Outcome("[Parse Failed]", 0, 0, url)]
  ELSE [raised |-> {}, value |-> Outcome("Source: ", 0, c, url)]

\* FetchExcept without the last clause: other exceptions leave fetch_article
FetchExceptNoCatchAll(url, exc) ==
  IF "TimeoutError" \in exc THEN Outcome("[Timeout]", 0, 0, url)
  ELSE IF "ClientError" \in exc THEN Outcome("[ClientError]", 0, 0, url)
  ELSE Outcome("raised", 0, 0, url)

\* the except clauses of fetch_article, in their order
FetchExcept(url, exc) ==
  IF "TimeoutError" \in exc THEN Outcome("[Timeout]", 0, 0, url)
  ELSE IF "ClientError" \in exc THEN Outcome("[ClientError]", 0, 0, url)
  ELSE Outcome("[UnhandledError]", 0, 0, url)

fetch_article(url, ev, c) ==
  LET try == FetchTry(url, ev, c)
  IN  IF try.raised = {} THEN try.value ELSE FetchExcept(url, try.raised)

\* result is not None and result.strip() != ""
NonBlank(result) == result.kind # ""

FailureMarkers ==
  {"[Fetch Failed: ", "[Parse Failed]", "[Timeout]", "[ClientError]", "[UnhandledError]"}

\* ------------------------------------------------------------ values
\* what search_web hands to its caller
Value(kind, run) == [kind |-> kind, run |-> run]
NoValue == Value("none", 0)
EmptyList == Value("list", 0)          \* the [] of the except branch of search
Raised == Value("raised", 0)           \* an exception instead of a value
Summary(c) == Value("summary", c)      \* the summarization model's text in run c

\* a FAISS vector store: the vectors of index, the docstore reached through
\* index_to_docstore_id, and the calls that wrote or queried it
Store(ntotal, docstore, users) ==
  [ntotal |-> ntotal, docstore |-> docstore, users |-> users]
NoStore == Store(0, <<>>, {})

\* an entry of the alru_cache of search_web
Entry(st, owner, val) == [st |-> st, owner |-> owner, val |-> val]
Absent == Entry("absent", 0, NoValue)

\* the requests a run has sent: to the search service, for each URL, to the
\* extraction model for each chunk, to the summarization model
Attempts(search, fetch, extract, summarize) ==
  [search |-> search, fetch |-> fetch, extract |-> extract, summarize |-> summarize]
NoAttempts == Attempts(0, <<>>, <<>>, 0)

\* _make_key of the positional arguments (request, query)
make_key(rq, q) == <<rq, q>>
Keys == Requests \X Queries

VARIABLES
  pc,        \* per call: where it is suspended
  req,       \* per call: the Request object it was called with
  query,     \* per call: its query string
  how,       \* per call: "miss", "hit" or "joined" (waits for a pending run)
  awaiting,  \* per joined call: the call whose run it waits for
  cache,     \* the alru_cache of search_web
  svc,       \* per call: the search service's answer (in flight, then decoded)
  urls,      \* per call: the list get_news_urls returned
  results,   \* per call: the outcomes of the fetch tasks
  fetchEv,   \* per call: what happened to each GET
  stores,    \* the vector stores, by the call that created them
  vs,        \* per call: its vector_store (an index of stores)
  chunks,    \* per call: final_results
  ext,       \* per call: the extraction tasks
  sem,       \* per call: the value of the semaphore of gather_extracted_info
  facts,     \* per call: total_extracted_info, as the list of its parts
  ret,       \* per call: what search_web returned
  attempts,  \* per call: the requests its run has sent, by stage
  html_content,  \* a response body handed to parse_html_content: its elements
  cleaned_text,  \* the text a cleaning or parsing step has produced
  prev,      \* the text before the last step
  applied    \* the steps applied to it so far, in their order

vars == <<pc, req, query, how, awaiting, cache, svc, urls, results, fetchEv,
          stores, vs, chunks, ext, sem, facts, ret, attempts,
          html_content, cleaned_text, prev, applied>>
cleanVars == <<html_content, cleaned_text, prev, applied>>
callVars == <<req, query, how, awaiting>>
fetchVars == <<svc, urls, results, fetchEv>>
indexVars == <<stores, vs, chunks>>
extVars == <<ext, sem, facts>>

\* get_news_urls on the service's answer: an exception, or a list of URLs
get_news_urls(a) ==
  IF a.fault # "none" THEN {[raised |-> TRUE, urls |-> <<>>]}
  ELSE IF a.status # StatusOK THEN {[raised |-> FALSE, urls |-> <<>>]}
  ELSE {[raised |-> FALSE, urls |-> l] : l \in FilterUrls(a.results)}

\* search_except re-raising what it caught
search_except_reraise == [raised |-> TRUE, extracted_info |-> NoValue]

\* the except branch of WebThinkerAgent.search
search_except == [raised |-> FALSE, extracted_info |-> EmptyList]

\* the return of the try block of WebThinkerAgent.search
search_return(c) == [raised |-> FALSE, extracted_info |-> Summary(c)]

\* search_web: results['extracted_info'], or the exception search let through
search_web_result(out) == IF out.raised THEN Raised ELSE out.extracted_info

\* task_done dropping the entry of every finished task
task_done_forget(key, c, value) == [cache EXCEPT ![key] = Absent]

\* task_done keeping only the results of runs that did not fail
task_done_skip_degraded(key, c, value) ==
  IF value \in {Raised, EmptyList} THEN [cache EXCEPT ![key] = Absent]
  ELSE [cache EXCEPT ![key] = Entry("done", c, value)]

\* _task_done_callback of alru_cache: the entry keeps the result, and an
\* exception removes the entry
task_done(key, c, value) ==
  IF value = Raised THEN [cache EXCEPT ![key] = Absent]
  ELSE [cache EXCEPT ![key] = Entry("done", c, value)]

\* the vector store of a returning call goes out of scope
Drop(ss, id) ==
  IF id = 0 THEN ss ELSE [ss EXCEPT ![id] = Store(0, <<>>, @.users)]

\* WebThinkerAgent.search returns out, search_web returns, the task of the
\* cache entry is done: the locals of the run are gone
Return(c, out, ss) ==
  /\ pc' = [pc EXCEPT ![c] = "returned"]
  /\ ret' = [ret EXCEPT ![c] = search_web_result(out)]
  /\ cache' = task_done(make_key(req[c], query[c]), c, search_web_result(out))
  /\ svc' = [svc EXCEPT ![c] = NoAnswer]
  /\ urls' = [urls EXCEPT ![c] = <<>>]
  /\ results' = [results EXCEPT ![c] = <<>>]
  /\ fetchEv' = [fetchEv EXCEPT ![c] = <<>>]
  /\ stores' = Drop(ss, vs[c])
  /\ vs' = [vs EXCEPT ![c] = 0]
  /\ chunks' = [chunks EXCEPT ![c] = <<>>]
  /\ ext' = [ext EXCEPT ![c] = <<>>]
  /\ sem' = [sem EXCEPT ![c] = 0]
  /\ facts' = [facts EXCEPT ![c] = <<>>]
  /\ attempts' = [attempts EXCEPT ![c] = NoAttempts]
  /\ UNCHANGED <<callVars, cleanVars>>

\* calls are numbered in the order of their arrival
NextToArrive(c) == pc[c] = "idle" /\ (IF c = 1 THEN TRUE ELSE pc[c - 1] # "idle")

\* -------------------------------------------------------- search_web
\* The alru_cache wrapper finds a finished entry: its result is returned.
CacheHit(c, rq, q) ==
  /\ NextToArrive(c)
  /\ cache[make_key(rq, q)].st = "done"
  /\ pc' = [pc EXCEPT ![c] = "returned"]
  /\ req' = [req EXCEPT ![c] = rq]
  /\ query' = [query EXCEPT ![c] = q]
  /\ how' = [how EXCEPT ![c] = "hit"]
  /\ ret' = [ret EXCEPT ![c] = cache[make_key(rq, q)].val]
  /\ UNCHANGED <<awaiting, cache, fetchVars, indexVars, extVars, attempts, cleanVars>>

\* The wrapper finds an entry whose task still runs: the call awaits it.
CacheJoin(c, rq, q) ==
  /\ NextToArrive(c)
  /\ cache[make_key(rq, q)].st = "pending"
  /\ pc' = [pc EXCEPT ![c] = "waiting"]
  /\ req' = [req EXCEPT ![c] = rq]
  /\ query' = [query EXCEPT ![c] = q]
  /\ how' = [how EXCEPT ![c] = "joined"]
  /\ awaiting' = [awaiting EXCEPT ![c] = cache[make_key(rq, q)].owner]
  /\ UNCHANGED <<cache, ret, fetchVars, indexVars, extVars, attempts, cleanVars>>

\* The wrapper finds no entry: it stores one for a new task, which runs
\* search_web -> WebThinkerAgent.search -> webscraper -> get_news_urls up to
\* the GET to the search service, whose answer will be ans.
CacheMiss(c, rq, q, ans) ==
  /\ NextToArrive(c)
  /\ cache[make_key(rq, q)].st = "absent"
  /\ pc' = [pc EXCEPT ![c] = "discover"]
  /\ req' = [req EXCEPT ![c] = rq]
  /\ query' = [query EXCEPT ![c] = q]
  /\ how' = [how EXCEPT ![c] = "miss"]
  /\ cache' = [cache EXCEPT ![make_key(rq, q)] = Entry("pending", c, NoValue)]
  /\ svc' = [svc EXCEPT ![c] = ans]
  /\ attempts' = [attempts EXCEPT ![c].search = @ + 1]
  /\ UNCHANGED <<awaiting, ret, urls, results, fetchEv, indexVars, extVars, cleanVars>>

\* The future a joined call awaits has its result.
Resume(c) ==
  /\ pc[c] = "waiting"
  /\ pc[awaiting[c]] = "returned"
  /\ pc' = [pc EXCEPT ![c] = "returned"]
  /\ ret' = [ret EXCEPT ![c] = ret[awaiting[c]]]
  /\ UNCHANGED <<callVars, cache, fetchVars, indexVars, extVars, attempts, cleanVars>>

\* The ttl timer of a finished entry fires: cache.pop(key).
Expire(key) ==
  /\ cache[key].st = "done"
  /\ cache' = [cache EXCEPT ![key] = Absent]
  /\ UNCHANGED <<pc, callVars, ret, fetchVars, indexVars, extVars, attempts, cleanVars>>

\* ------------------------------------------------- webscraper: discovery
\* DiscoveryResponds with a webscraper that gathers its (empty) list of fetch
\* tasks when there is no URL, in place of returning None
DiscoveryRespondsEmptyList(c) ==
  /\ pc[c] = "discover"
  /\ \E d \in get_news_urls(svc[c]) :
       IF d.raised
       THEN Return(c, search_except, stores)
       ELSE /\ pc' = [pc EXCEPT ![c] = "fetch"]
            /\ urls' = [urls EXCEPT ![c] = d.urls]
            /\ results' = [results EXCEPT ![c] = [i \in DOMAIN d.urls |-> Pending]]
            /\ fetchEv' = [fetchEv EXCEPT ![c] = [i \in DOMAIN d.urls |-> NoEvent]]
            /\ attempts' = [attempts EXCEPT ![c].fetch = [i \in DOMAIN d.urls |-> 1]]
            /\ UNCHANGED <<callVars, cache, ret, svc, indexVars, extVars, cleanVars>>

\* The search service answers. get_news_urls returns (or raises); webscraper
\* returns None when there is no URL, which makes the list comprehension of
\* search raise; otherwise it creates one fetch task per URL and gathers them.
DiscoveryResponds(c) ==
  /\ pc[c] = "discover"
  /\ \E d \in get_news_urls(svc[c]) :
       IF d.raised \/ d.urls = <<>>
       THEN Return(c, search_except, stores)
       ELSE /\ pc' = [pc EXCEPT ![c] = "fetch"]
            /\ urls' = [urls EXCEPT ![c] = d.urls]
            /\ results' = [results EXCEPT ![c] = [i \in DOMAIN d.urls |-> Pending]]
            /\ fetchEv' = [fetchEv EXCEPT ![c] = [i \in DOMAIN d.urls |-> NoEvent]]
            /\ attempts' = [attempts EXCEPT ![c].fetch = [i \in DOMAIN d.urls |-> 1]]
            /\ UNCHANGED <<callVars, cache, ret, svc, indexVars, extVars, cleanVars>>

\* gather_result listing the results in the order of their completion
gather_as_completed(rs, i, r) ==
  LET first == CHOOSE j \in DOMAIN rs :
                 rs[j] = Pending /\ \A k \in 1..(j - 1) : rs[k] # Pending
  IN  [rs EXCEPT ![first] = r]

\* asyncio.gather: the result of the i-th awaitable is the i-th of the list
gather_result(rs, i, r) == [rs EXCEPT ![i] = r]

\* FetchFinishes asking again, once, for a URL whose fetch failed
FetchFinishesRetry(c, i, ev) ==
  /\ pc[c] = "fetch"
  /\ i \in DOMAIN results[c]
  /\ results[c][i] = Pending
  /\ IF fetch_article(urls[c][i], ev, c).kind \in FailureMarkers /\ attempts[c].fetch[i] < 2
     THEN /\ attempts' = [attempts EXCEPT ![c].fetch[i] = @ + 1]
          /\ UNCHANGED <<results, fetchEv>>
     ELSE /\ results' = [results EXCEPT
                           ![c] = gather_result(@, i, fetch_article(urls[c][i], ev, c))]
          /\ fetchEv' = [fetchEv EXCEPT ![c][i] = ev]
          /\ UNCHANGED attempts
  /\ UNCHANGED <<pc, callVars, cache, ret, svc, urls, indexVars, extVars, cleanVars>>

\* One fetch task ends: fetch_article returns its string.
FetchFinishes(c, i, ev) ==
  /\ pc[c] = "fetch"
  /\ i \in DOMAIN results[c]
  /\ results[c][i] = Pending
  /\ results' = [results EXCEPT
                  ![c] = gather_result(@, i, fetch_article(urls[c][i], ev, c))]
  /\ fetchEv' = [fetchEv EXCEPT ![c][i] = ev]
  /\ UNCHANGED <<pc, callVars, cache, ret, svc, urls, indexVars, extVars, attempts, cleanVars>>

\* ------------------------------------------------------ the vector store
\* get_vector_store handing out one module-level FAISS object
get_vector_store_shared(c) == 1

\* get_vector_store: a FAISS object of its own for every call (the object
\* created in call c is named c)
get_vector_store(c) == c

\* vector_store.add_texts: the vectors go to the index, the documents to the
\* docstore under the next positions of index_to_docstore_id
add_texts(store, texts, c) ==
  Store(store.ntotal + Len(texts), store.docstore \o texts, store.users \cup {c})

\* the position lists a nearest-neighbour search over ntotal vectors can
\* return for k: min(k, ntotal) different positions, nearest first
TopK(ntotal, k) ==
  {p \in SeqsUpTo(1..ntotal, k) :
     /\ Len(p) = (IF k < ntotal THEN k ELSE ntotal)
     /\ \A i, j \in DOMAIN p : i # j => p[i] # p[j]}

\* vector_store.similarity_search: the documents index_to_docstore_id names
\* for the positions found
similarity_search(store, p) == [j \in DOMAIN p |-> store.docstore[p[j]]]

\* vector_store._documents = [] ; vector_store.index.reset()
reset(store) == Store(0, store.docstore, store.users)

NoRelevant == Outcome("No relevant information found.", 0, 0, EmptyString)

\* final_results without the else branch
final_results_no_fallback(docs) == docs

\* final_results of search
final_results(docs) == IF docs # <<>> THEN docs ELSE <<NoRelevant>>

\* an extraction task: st is "waiting" (for the semaphore), "inflight" (its
\* model call runs) or "done", call what the model call did ("none" yet,
\* "returned" or "raised"), out what extract_information returned
Task(st, call, out) == [st |-> st, call |-> call, out |-> out]
Fact(kind, chunk) == [kind |-> kind, chunk |-> chunk]
NoFact == Fact("none", Pending)

\* AllFetched without the wait: gather returns while tasks still run
AllFetchedUnawaited(c) == \E i \in DOMAIN results[c] : results[c][i] # Pending

AllFetched(c) == \A i \in DOMAIN results[c] : results[c][i] # Pending

\* asyncio.gather of the fetch tasks is done: webscraper returns the results,
\* search filters them, builds and queries its vector store, resets it, and
\* gather_extracted_info creates its semaphore and one task per chunk.
\* embOk: the embedding service works (when not, get_vector_store raises).
GatherFetched(c, embOk) ==
  /\ pc[c] = "fetch"
  /\ AllFetched(c)
  /\ LET search_results == SelectSeq(results[c], NonBlank)
         id == get_vector_store(c)
         added == add_texts(stores[id], search_results, c)
     IN  IF ~embOk
         THEN Return(c, search_except, stores)
         ELSE \E p \in TopK(added.ntotal, NUMBER_OF_POINTS) :
              LET found == final_results(similarity_search(added, p))
              IN  /\ stores' = [stores EXCEPT ![id] = reset(added)]
                  /\ vs' = [vs EXCEPT ![c] = id]
                  /\ chunks' = [chunks EXCEPT ![c] = found]
                  /\ ext' = [ext EXCEPT ![c] =
                               [i \in DOMAIN found |-> Task("waiting", "none", NoFact)]]
                  /\ sem' = [sem EXCEPT ![c] = SemaphoreSize]
                  /\ attempts' = [attempts EXCEPT ![c].extract = [i \in DOMAIN found |-> 0]]
                  /\ pc' = [pc EXCEPT ![c] = "extract"]
                  /\ UNCHANGED <<callVars, cache, ret, fetchVars, facts, cleanVars>>

\* ------------------------------------------------- gather_extracted_info
\* Admit without the semaphore: the task starts its model call at once
AdmitUngated(c, i) ==
  /\ pc[c] = "extract"
  /\ i \in DOMAIN ext[c]
  /\ ext[c][i].st = "waiting"
  /\ sem' = [sem EXCEPT ![c] = @ - 1]
  /\ ext' = [ext EXCEPT ![c][i] = Task("inflight", "none", NoFact)]
  /\ attempts' = [attempts EXCEPT ![c].extract[i] = @ + 1]
  /\ UNCHANGED <<pc, callVars, cache, ret, fetchVars, indexVars, facts, cleanVars>>

\* Admit with one semaphore made at import time and shared by every call
AdmitSharedGate(c, i) ==
  /\ pc[c] = "extract"
  /\ i \in DOMAIN ext[c]
  /\ ext[c][i].st = "waiting"
  /\ sem[c] > 0
  /\ Cardinality(UNION {{<<d, j>> : j \in {k \in DOMAIN ext[d] : ext[d][k].st = "inflight"}}
                         : d \in Calls}) < SemaphoreSize
  /\ sem' = [sem EXCEPT ![c] = @ - 1]
  /\ ext' = [ext EXCEPT ![c][i] = Task("inflight", "none", NoFact)]
  /\ attempts' = [attempts EXCEPT ![c].extract[i] = @ + 1]
  /\ UNCHANGED <<pc, callVars, cache, ret, fetchVars, indexVars, facts, cleanVars>>

\* safe_extract enters "async with semaphore" and starts its model call.
Admit(c, i) ==
  /\ pc[c] = "extract"
  /\ i \in DOMAIN ext[c]
  /\ ext[c][i].st = "waiting"
  /\ sem[c] > 0
  /\ sem' = [sem EXCEPT ![c] = @ - 1]
  /\ ext' = [ext EXCEPT ![c][i] = Task("inflight", "none", NoFact)]
  /\ attempts' = [attempts EXCEPT ![c].extract[i] = @ + 1]
  /\ UNCHANGED <<pc, callVars, cache, ret, fetchVars, indexVars, facts, cleanVars>>

\* extract_information without its try/except
extract_information_unguarded(chunk, ok) ==
  IF ok THEN Fact("fact", chunk) ELSE Fact("raised", chunk)

\* extract_information: the model's text, or the error text of its except
extract_information(chunk, ok) ==
  IF ok THEN Fact("fact", chunk) ELSE Fact("Error extracting information: ", chunk)

\* ExtractFinishes with a semaphore that is released by hand after the call
\* instead of by "async with": a call that raises keeps its slot
ExtractFinishesKeepsSlot(c, i, ok) ==
  /\ pc[c] = "extract"
  /\ i \in DOMAIN ext[c]
  /\ ext[c][i].st = "inflight"
  /\ ext' = [ext EXCEPT ![c][i] = Task("done", IF ok THEN "returned" ELSE "raised",
                                        extract_information(chunks[c][i], ok))]
  /\ sem' = [sem EXCEPT ![c] = IF ok THEN @ + 1 ELSE @]
  /\ UNCHANGED <<pc, callVars, cache, ret, fetchVars, indexVars, facts, attempts, cleanVars>>

\* A model call returns or raises; extract_information returns and the
\* "async with" releases the semaphore.
ExtractFinishes(c, i, ok) ==
  /\ pc[c] = "extract"
  /\ i \in DOMAIN ext[c]
  /\ ext[c][i].st = "inflight"
  /\ ext' = [ext EXCEPT ![c][i] = Task("done", IF ok THEN "returned" ELSE "raised",
                                        extract_information(chunks[c][i], ok))]
  /\ sem' = [sem EXCEPT ![c] = @ + 1]
  /\ UNCHANGED <<pc, callVars, cache, ret, fetchVars, indexVars, facts, attempts, cleanVars>>

AllExtracted(c) == \A i \in DOMAIN ext[c] : ext[c][i].st = "done"

\* asyncio.gather of the extraction tasks is done: the facts are joined and
\* the summarization model is called.
GatherExtracted(c) ==
  /\ pc[c] = "extract"
  /\ AllExtracted(c)
  /\ facts' = [facts EXCEPT ![c] = [i \in DOMAIN ext[c] |-> ext[c][i].out]]
  /\ attempts' = [attempts EXCEPT ![c].summarize = @ + 1]
  /\ pc' = [pc EXCEPT ![c] = "summarize"]
  /\ UNCHANGED <<callVars, cache, ret, fetchVars, indexVars, ext, sem, cleanVars>>

\* The summarization call returns or raises, and search returns.
SummarizeFinishes(c, ok) ==
  /\ pc[c] = "summarize"
  /\ Return(c, IF ok THEN search_return(c) ELSE search_except, stores)

\* ------------------------------------------------------ specifications
\* no text is being cleaned or parsed
NotCleaning ==
  html_content = <<>> /\ cleaned_text = <<>> /\ prev = <<>> /\ applied = <<>>

\* no call of search_web has arrived
NoCalls ==
  /\ pc = [c \in Calls |-> "idle"]
  /\ req = [c \in Calls |-> 0]
  /\ query = [c \in Calls |-> ""]
  /\ how = [c \in Calls |-> "none"]
  /\ awaiting = [c \in Calls |-> 0]
  /\ cache = [k \in Keys |-> Absent]
  /\ svc = [c \in Calls |-> NoAnswer]
  /\ urls = [c \in Calls |-> <<>>]
  /\ results = [c \in Calls |-> <<>>]
  /\ fetchEv = [c \in Calls |-> <<>>]
  /\ stores = [c \in Calls |-> NoStore]
  /\ vs = [c \in Calls |-> 0]
  /\ chunks = [c \in Calls |-> <<>>]
  /\ ext = [c \in Calls |-> <<>>]
  /\ sem = [c \in Calls |-> 0]
  /\ facts = [c \in Calls |-> <<>>]
  /\ ret = [c \in Calls |-> NoValue]
  /\ attempts = [c \in Calls |-> NoAttempts]

Idle == NoCalls /\ NotCleaning

\* the answers and fetch events of the runs of Spec: discovery fails in its
\* two ways or lists one URL, whose fetch fails or succeeds
SearchAnswers ==
  { Answer("transport", 0, <<>>),
    Answer("none", 503, <<>>),
    Answer("none", StatusOK, <<Result(GoodUrl(1))>>) }

SearchEvents ==
  { FetchEvent({"TimeoutError"}, 0, "unset"),
    FetchEvent({}, StatusOK, "text") }

\* Request objects are told apart by identity alone: they are numbered in
\* the order of their first use
UsedOrNext(rq) == \A r \in 1..(rq - 1) : \E c \in Calls : req[c] = r

Init == Idle

Next ==
  \/ \E c \in Calls, rq \in Requests, q \in Queries :
       UsedOrNext(rq) /\ CacheHit(c, rq, q)
  \/ \E c \in Calls, rq \in Requests, q \in Queries :
       UsedOrNext(rq) /\ CacheJoin(c, rq, q)
  \/ \E c \in Calls, rq \in Requests, q \in Queries, ans \in SearchAnswers :
       UsedOrNext(rq) /\ CacheMiss(c, rq, q, ans)
  \/ \E c \in Calls : Resume(c)
  \/ \E k \in Keys : Expire(k)
  \/ \E c \in Calls : DiscoveryResponds(c)
  \/ \E c \in Calls : \E i \in DOMAIN results[c], ev \in SearchEvents :
       FetchFinishes(c, i, ev)
  \/ \E c \in Calls, embOk \in BOOLEAN : GatherFetched(c, embOk)
  \/ \E c \in Calls : \E i \in DOMAIN ext[c] : Admit(c, i)
  \/ \E c \in Calls : \E i \in DOMAIN ext[c], ok \in BOOLEAN : ExtractFinishes(c, i, ok)
  \/ \E c \in Calls : GatherExtracted(c)
  \/ \E c \in Calls, ok \in BOOLEAN : SummarizeFinishes(c, ok)

Spec == Init /\ [][Next]_vars

\* ---- get_news_urls alone: one call whose request to the search service is
\* in flight, for every answer of at most MaxResponse results
InitDiscover ==
  \E ans \in Answers(MaxResponse) :
    /\ pc = [c \in Calls |-> IF c = 1 THEN "discover" ELSE "idle"]
    /\ req = [c \in Calls |-> IF c = 1 THEN 1 ELSE 0]
    /\ query = [c \in Calls |-> IF c = 1 THEN "ipl match today" ELSE ""]
    /\ how = [c \in Calls |-> IF c = 1 THEN "miss" ELSE "none"]
    /\ awaiting = [c \in Calls |-> 0]
    /\ cache = [k \in Keys |-> IF k = make_key(1, "ipl match today")
                               THEN Entry("pending", 1, NoValue) ELSE Absent]
    /\ svc = [c \in Calls |-> IF c = 1 THEN ans ELSE NoAnswer]
    /\ urls = [c \in Calls |-> <<>>]
    /\ results = [c \in Calls |-> <<>>]
    /\ fetchEv = [c \in Calls |-> <<>>]
    /\ stores = [c \in Calls |-> NoStore]
    /\ vs = [c \in Calls |-> 0]
    /\ chunks = [c \in Calls |-> <<>>]
    /\ ext = [c \in Calls |-> <<>>]
    /\ sem = [c \in Calls |-> 0]
    /\ facts = [c \in Calls |-> <<>>]
    /\ ret = [c \in Calls |-> NoValue]
    /\ attempts = [c \in Calls |-> IF c = 1 THEN Attempts(1, <<>>, <<>>, 0) ELSE NoAttempts]
    /\ NotCleaning

NextDiscover == DiscoveryResponds(1)

SpecDiscover == InitDiscover /\ [][NextDiscover]_vars

\* ---- the fetch fan-out alone: one call whose fetch tasks were just
\* created, for every number of URLs up to MaxFetch and every fetch event
InitFetch ==
  \E n \in 1..MaxFetch :
    /\ pc = [c \in Calls |-> IF c = 1 THEN "fetch" ELSE "idle"]
    /\ req = [c \in Calls |-> IF c = 1 THEN 1 ELSE 0]
    /\ query = [c \in Calls |-> IF c = 1 THEN "ipl match today" ELSE ""]
    /\ how = [c \in Calls |-> IF c = 1 THEN "miss" ELSE "none"]
    /\ awaiting = [c \in Calls |-> 0]
    /\ cache = [k \in Keys |-> IF k = make_key(1, "ipl match today")
                               THEN Entry("pending", 1, NoValue) ELSE Absent]
    /\ svc = [c \in Calls |-> NoAnswer]
    /\ urls = [c \in Calls |-> IF c = 1 THEN [i \in 1..n |-> GoodUrl(i)] ELSE <<>>]
    /\ results = [c \in Calls |-> IF c = 1 THEN [i \in 1..n |-> Pending] ELSE <<>>]
    /\ fetchEv = [c \in Calls |-> IF c = 1 THEN [i \in 1..n |-> NoEvent] ELSE <<>>]
    /\ stores = [c \in Calls |-> NoStore]
    /\ vs = [c \in Calls |-> 0]
    /\ chunks = [c \in Calls |-> <<>>]
    /\ ext = [c \in Calls |-> <<>>]
    /\ sem = [c \in Calls |-> 0]
    /\ facts = [c \in Calls |-> <<>>]
    /\ ret = [c \in Calls |-> NoValue]
    /\ attempts = [c \in Calls |-> IF c = 1 THEN Attempts(1, [i \in 1..n |-> 1], <<>>, 0)
                                 ELSE NoAttempts]
    /\ NotCleaning

NextFetch ==
  \/ \E i \in DOMAIN results[1], ev \in FetchEvents : FetchFinishes(1, i, ev)
  \/ \E embOk \in BOOLEAN : GatherFetched(1, embOk)

SpecFetch == InitFetch /\ [][NextFetch]_vars

\* ---- gather_extracted_info alone: one call whose extraction tasks were
\* just created, for every number of chunks up to MaxChunks
ChunkOf(i) == Outcome("Source: ", 0, 1, GoodUrl(i))

InitExtract ==
  \E n \in 1..MaxChunks :
    /\ pc = [c \in Calls |-> IF c = 1 THEN "extract" ELSE "idle"]
    /\ req = [c \in Calls |-> IF c = 1 THEN 1 ELSE 0]
    /\ query = [c \in Calls |-> IF c = 1 THEN "ipl match today" ELSE ""]
    /\ how = [c \in Calls |-> IF c = 1 THEN "miss" ELSE "none"]
    /\ awaiting = [c \in Calls |-> 0]
    /\ cache = [k \in Keys |-> IF k = make_key(1, "ipl match today")
                               THEN Entry("pending", 1, NoValue) ELSE Absent]
    /\ svc = [c \in Calls |-> NoAnswer]
    /\ urls = [c \in Calls |-> <<>>]
    /\ results = [c \in Calls |-> <<>>]
    /\ fetchEv = [c \in Calls |-> <<>>]
    /\ stores = [c \in Calls |-> IF c = 1 THEN Store(0, [i \in 1..n |-> ChunkOf(i)], {1})
                               ELSE NoStore]
    /\ vs = [c \in Calls |-> IF c = 1 THEN 1 ELSE 0]
    /\ chunks = [c \in Calls |-> IF c = 1 THEN [i \in 1..n |-> ChunkOf(i)] ELSE <<>>]
    /\ ext = [c \in Calls |-> IF c = 1 THEN [i \in 1..n |-> Task("waiting", "none", NoFact)]
                            ELSE <<>>]
    /\ sem = [c \in Calls |-> IF c = 1 THEN SemaphoreSize ELSE 0]
    /\ facts = [c \in Calls |-> <<>>]
    /\ ret = [c \in Calls |-> NoValue]
    /\ attempts = [c \in Calls |-> IF c = 1
                      THEN Attempts(1, <<>>, [i \in 1..n |-> 0], 0)
                      ELSE NoAttempts]
    /\ NotCleaning

NextExtract ==
  \/ \E i \in DOMAIN ext[1] : Admit(1, i)
  \/ \E i \in DOMAIN ext[1], ok \in BOOLEAN : ExtractFinishes(1, i, ok)
  \/ GatherExtracted(1)

SpecExtract == InitExtract /\ [][NextExtract]_vars

\* The event loop runs every task that is ready: a task that waits for the
\* semaphore goes on once a slot stays free, gather returns once all tasks
\* are done; and every model call returns or raises in the end.
FairExtract ==
  /\ \A i \in 1..MaxChunks : WF_vars(Admit(1, i))
  /\ \A i \in 1..MaxChunks : WF_vars(\E ok \in BOOLEAN : ExtractFinishes(1, i, ok))
  /\ WF_vars(GatherExtracted(1))

LiveSpecExtract == SpecExtract /\ FairExtract

\* ---- discovery that finds nothing: the calls of the service, with a search
\* service that answers every query, without a fault, with a status or a
\* result list that leaves no URL
NoUrls(a) == get_news_urls(a) = {[raised |-> FALSE, urls |-> <<>>]}
NoUrlAnswers == {a \in Answers(MaxResponse) : NoUrls(a)}

NextNoUrls ==
  \/ \E c \in Calls, rq \in Requests, q \in Queries :
       UsedOrNext(rq) /\ CacheHit(c, rq, q)
  \/ \E c \in Calls, rq \in Requests, q \in Queries :
       UsedOrNext(rq) /\ CacheJoin(c, rq, q)
  \/ \E c \in Calls, rq \in Requests, q \in Queries, ans \in NoUrlAnswers :
       UsedOrNext(rq) /\ CacheMiss(c, rq, q, ans)
  \/ \E c \in Calls : Resume(c)
  \/ \E k \in Keys : Expire(k)
  \/ \E c \in Calls : DiscoveryResponds(c)

SpecNoUrls == Init /\ [][NextNoUrls]_vars

\* ---- two extraction stages at once: two calls with different queries, none
\* cached, whose tasks were just created: one task more than the semaphore has
\* slots in the first, as many as it has slots in the second; every model call
\* returns
Concurrent == {1, 2}
QueryOf(c) == IF c = 1 THEN "ipl match today" ELSE "IPL match today"
ChunksOf(c) ==
  [i \in 1..(SemaphoreSize + (IF c = 1 THEN 1 ELSE 0)) |-> Outcome("Source: ", 0, c, GoodUrl(i))]

InitTwoGates ==
  /\ pc = [c \in Calls |-> IF c \in Concurrent THEN "extract" ELSE "idle"]
  /\ req = [c \in Calls |-> IF c \in Concurrent THEN 1 ELSE 0]
  /\ query = [c \in Calls |-> IF c \in Concurrent THEN QueryOf(c) ELSE ""]
  /\ how = [c \in Calls |-> IF c \in Concurrent THEN "miss" ELSE "none"]
  /\ awaiting = [c \in Calls |-> 0]
  /\ cache = [k \in Keys |-> IF \E c \in Concurrent : k = make_key(1, QueryOf(c))
                             THEN Entry("pending", CHOOSE c \in Concurrent : k = make_key(1, QueryOf(c)),
                                        NoValue)
                             ELSE Absent]
  /\ svc = [c \in Calls |-> NoAnswer]
  /\ urls = [c \in Calls |-> <<>>]
  /\ results = [c \in Calls |-> <<>>]
  /\ fetchEv = [c \in Calls |-> <<>>]
  /\ stores = [c \in Calls |-> IF c \in Concurrent THEN Store(0, ChunksOf(c), {c}) ELSE NoStore]
  /\ vs = [c \in Calls |-> IF c \in Concurrent THEN c ELSE 0]
  /\ chunks = [c \in Calls |-> IF c \in Concurrent THEN ChunksOf(c) ELSE <<>>]
  /\ ext = [c \in Calls |-> IF c \in Concurrent
                            THEN [i \in DOMAIN ChunksOf(c) |-> Task("waiting", "none", NoFact)]
                            ELSE <<>>]
  /\ sem = [c \in Calls |-> IF c \in Concurrent THEN SemaphoreSize ELSE 0]
  /\ facts = [c \in Calls |-> <<>>]
  /\ ret = [c \in Calls |-> NoValue]
  /\ attempts = [c \in Calls |-> IF c \in Concurrent
                    THEN Attempts(1, <<>>, [i \in DOMAIN ChunksOf(c) |-> 0], 0)
                    ELSE NoAttempts]
  /\ NotCleaning

NextTwoGates ==
  \/ \E c \in Concurrent : \E i \in DOMAIN ext[c] : Admit(c, i)
  \/ \E c \in Concurrent : \E i \in DOMAIN ext[c] : ExtractFinishes(c, i, TRUE)
  \/ \E c \in Concurrent : GatherExtracted(c)

SpecTwoGates == InitTwoGates /\ [][NextTwoGates]_vars

\* ---- the index step of search alone (lines 119 to 138): one call to which
\* webscraper hands a list of at most MaxDocs strings, blank ones included
Blank == Outcome("", 0, 0, EmptyString)

Docs ==
  { Blank,
    Outcome("Source: ", 0, 1, GoodUrl(1)),
    Outcome("Source: ", 0, 1, GoodUrl(2)),
    Outcome("[Timeout]", 0, 0, GoodUrl(3)) }

InitIndex ==
  \E docs \in SeqsUpTo(Docs, MaxDocs) :
    /\ pc = [c \in Calls |-> IF c = 1 THEN "fetch" ELSE "idle"]
    /\ req = [c \in Calls |-> IF c = 1 THEN 1 ELSE 0]
    /\ query = [c \in Calls |-> IF c = 1 THEN "ipl match today" ELSE ""]
    /\ how = [c \in Calls |-> IF c = 1 THEN "miss" ELSE "none"]
    /\ awaiting = [c \in Calls |-> 0]
    /\ cache = [k \in Keys |-> IF k = make_key(1, "ipl match today")
                               THEN Entry("pending", 1, NoValue) ELSE Absent]
    /\ svc = [c \in Calls |-> NoAnswer]
    /\ urls = [c \in Calls |-> IF c = 1 THEN [i \in DOMAIN docs |-> GoodUrl(i)] ELSE <<>>]
    /\ results = [c \in Calls |-> IF c = 1 THEN docs ELSE <<>>]
    /\ fetchEv = [c \in Calls |-> IF c = 1 THEN [i \in DOMAIN docs |-> NoEvent] ELSE <<>>]
    /\ stores = [c \in Calls |-> NoStore]
    /\ vs = [c \in Calls |-> 0]
    /\ chunks = [c \in Calls |-> <<>>]
    /\ ext = [c \in Calls |-> <<>>]
    /\ sem = [c \in Calls |-> 0]
    /\ facts = [c \in Calls |-> <<>>]
    /\ ret = [c \in Calls |-> NoValue]
    /\ attempts = [c \in Calls |-> IF c = 1
                      THEN Attempts(1, [i \in DOMAIN docs |-> 1], <<>>, 0)
                      ELSE NoAttempts]
    /\ NotCleaning

NextIndex == \E embOk \in BOOLEAN : GatherFetched(1, embOk)

SpecIndex == InitIndex /\ [][NextIndex]_vars

\* ================================================== markdown_cleaner.py
\* --------------------------------------------------------- regular expressions
\* A text is a sequence of tokens: words, numbers, and the marks of markdown.
Spaces == {" ", "\n", "\r"}
Marks == {"**", "[", "]", "(", ")", "!", ":", ",", ".", ";", "?", "#", "<", ">",
          "=", "\"", "/", "-", "&copy;", "&bull;", "&ndash;", "https://", "://"}
IsWord(tok) == tok \notin Spaces \cup Marks
\* the tokens made of digits: of one or two, of two, of four
Digits12 == {"5", "7", "08", "52", "20", "30", "40", "50", "60", "70", "80", "90"}
Digits2 == {"08", "52", "20", "30", "40", "50", "60", "70", "80", "90"}
Digits4 == {"2025"}
Numbers == Digits12 \cup Digits4 \cup {"100"}

\* str.lower() on a token
LowerTok(tok) ==
  CASE tok = "READ" -> "read"
    [] tok = "MORE" -> "more"
    [] tok = "ALSO" -> "also"
    [] tok = "RELATED" -> "related"
    [] tok = "CHECK" -> "check"
    [] tok = "OUT" -> "out"
    [] tok = "BET" -> "bet"
    [] tok = "NOW" -> "now"
    [] tok = "WIN" -> "win"
    [] tok = "WELCOME" -> "welcome"
    [] tok = "BONUS" -> "bonus"
    [] tok = "Bet" -> "bet"
    [] tok = "Claim" -> "claim"
    [] tok = "Get" -> "get"
    [] tok = "Grab" -> "grab"
    [] tok = "Win" -> "win"
    [] tok = "Follow" -> "follow"
    [] tok = "The" -> "the"
    [] tok = "Twitter" -> "twitter"
    [] tok = "Facebook" -> "facebook"
    [] tok = "Instagram" -> "instagram"
    [] tok = "WhatsApp" -> "whatsapp"
    [] tok = "Telegram" -> "telegram"
    [] tok = "YouTube" -> "youtube"
    [] tok = "Subscribe" -> "subscribe"
    [] tok = "For" -> "for"
    [] tok = "Don't" -> "don't"
    [] tok = "Copyright" -> "copyright"
    [] tok = "All" -> "all"
    [] tok = "IPL" -> "ipl"
    [] tok = "Logo" -> "logo"
    [] tok = "Mumbai" -> "mumbai"
    [] tok = "Chennai" -> "chennai"
    [] tok = "MI" -> "mi"
    [] tok = "CSK" -> "csk"
    [] tok = "UTC" -> "utc"
    [] tok = "May" -> "may"
    [] tok = "Published" -> "published"
    [] tok = "Stadium" -> "stadium"
    [] tok = "Match" -> "match"
    [] tok = "Information" -> "information"
    [] tok = "Venue" -> "venue"
    [] tok = "Super" -> "super"
    [] tok = "Giants" -> "giants"
    [] tok = "LSG" -> "lsg"
    [] tok = "Royal" -> "royal"
    [] tok = "Challengers" -> "challengers"
    [] tok = "Bengaluru" -> "bengaluru"
    [] tok = "RCB" -> "rcb"
    [] tok = "Lucknow" -> "lucknow"
    [] OTHER -> tok

\* the nodes of a pattern
One(c) == [t |-> "one", c |-> c]                 \* one token of the class c
Lit(tok) == [t |-> "lit", c |-> tok, ic |-> FALSE]
LitI(tok) == [t |-> "lit", c |-> tok, ic |-> TRUE]   \* under re.IGNORECASE
Cat(r) == [t |-> "seq", r |-> r]
Alt(r) == [t |-> "alt", r |-> r]
Rep(r, min, max, lazy) == [t |-> "rep", r |-> r, min |-> min, max |-> max, lazy |-> lazy]
Star(r) == Rep(r, 0, -1, FALSE)
Plus(r) == Rep(r, 1, -1, FALSE)
Opt(r) == Rep(r, 0, 1, FALSE)
LazyStar(r) == Rep(r, 0, -1, TRUE)
Grp(n, r) == [t |-> "grp", n |-> n, r |-> r]
NotAhead(c) == [t |-> "notahead", c |-> c]       \* (?!$|c)
End == [t |-> "end"]                             \* $
OneOf(toks) == [t |-> "in", c |-> toks, ic |-> FALSE]    \* (?:tok|tok|...)
OneOfI(toks) == [t |-> "in", c |-> toks, ic |-> TRUE]
WordEdge == [t |-> "b"]                          \* \b

InClass(tok, c) ==
  CASE c = "." -> tok # "\n"
    [] c = "\\s" -> tok \in Spaces
    [] c = "\\w" -> IsWord(tok)
    [] c = "[^\\]]" -> tok # "]"
    [] c = "[^)]" -> tok # ")"
    [] c = "[^>]" -> tok # ">"
    [] c = "[^\\s)]" -> tok \notin Spaces \cup {")"}
    [] c = "[.,;:!?]" -> tok \in {".", ",", ";", ":", "!", "?"}
    [] c = "[\\s\\S]" -> TRUE
    [] c = "[#\\n]" -> tok \in {"#", "\n"}
    [] c = "[\\w\\s]" -> IsWord(tok) \/ tok \in Spaces
    [] c = "[\\w\\s,]" -> IsWord(tok) \/ tok \in Spaces \cup {","}
    [] c = "\\d" -> tok \in Numbers

MaxGroups == 7
NoGroups == [n \in 1..MaxGroups |-> <<0, 0>>]
NoMatch == [ok |-> FALSE, start |-> 0, end |-> 0, g |-> NoGroups]

\* a node that takes exactly one token
IsSimple(n) == n.t \in {"one", "lit", "in"}
Takes(n, tok) ==
  CASE n.t = "one" -> InClass(tok, n.c)
    [] n.t = "lit" -> IF n.ic THEN LowerTok(tok) = LowerTok(n.c) ELSE tok = n.c
    [] n.t = "in" -> IF n.ic THEN LowerTok(tok) \in {LowerTok(x) : x \in n.c}
                     ELSE tok \in n.c

\* how many tokens of s from position i on the simple node n takes in a row,
\* at most max of them (any number when max < 0)
Least(found, none) == IF found = {} THEN none ELSE CHOOSE j \in found : \A k \in found : j <= k
AtMost(run, max) == IF max >= 0 /\ run > max THEN max ELSE run
Run(n, s, i, max) ==
  AtMost(Least({j \in i..Len(s) : ~Takes(n, s[j])}, Len(s) + 1) - i, max)

\* One way of matching a part of a pattern: the position after it and the
\* groups closed so far.
At(pos, g) == [pos |-> pos, g |-> g]

\* the elements of a sequence without the repetitions of earlier ones
Distinct(seq) ==
  LET keep == {k \in DOMAIN seq : \A j \in 1..(k - 1) : seq[j] # seq[k]}
  IN  [r \in 1..Cardinality(keep) |->
         seq[CHOOSE k \in keep : Cardinality({j \in keep : j <= k}) = r]]

RECURSIVE Flatten(_)
\* the concatenation of a sequence of sequences
Flatten(seqs) ==
  IF seqs = <<>> THEN <<>>
  ELSE IF Len(seqs) = 1 THEN seqs[1]
  ELSE LET half == Len(seqs) \div 2
       IN  Flatten(SubSeq(seqs, 1, half)) \o Flatten(SubSeq(seqs, half + 1, Len(seqs)))

RECURSIVE Ends(_, _, _)
RECURSIVE EndsSeq(_, _, _)
RECURSIVE EndsRep(_, _, _, _, _, _)
\* The ways in which the node n matches s from the way st on, in the order in
\* which a backtracking matcher tries them.
Ends(n, s, st) ==
  CASE IsSimple(n) ->
         IF st.pos <= Len(s) /\ Takes(n, s[st.pos]) THEN <<At(st.pos + 1, st.g)>> ELSE <<>>
    [] n.t = "seq" -> EndsSeq(n.r, s, <<st>>)
    [] n.t = "alt" -> Flatten([k \in DOMAIN n.r |-> Ends(n.r[k], s, st)])
    [] n.t = "rep" ->
         IF IsSimple(n.r)
         THEN LET most == Run(n.r, s, st.pos, n.max)
              IN  IF most < n.min THEN <<>>
                  ELSE [k \in 1..(most - n.min + 1) |->
                          At(st.pos + (IF n.lazy THEN n.min + k - 1 ELSE most - k + 1), st.g)]
         ELSE EndsRep(n.r, n.min, n.max, n.lazy, s, st)
    [] n.t = "grp" ->
         LET inner == Ends(n.r, s, st)
         IN  [k \in DOMAIN inner |->
                At(inner[k].pos, [inner[k].g EXCEPT ![n.n] = <<st.pos, inner[k].pos>>])]
    [] n.t = "notahead" ->
         IF st.pos > Len(s) \/ InClass(s[st.pos], n.c) THEN <<>> ELSE <<st>>
    [] n.t = "end" ->
         IF st.pos > Len(s) \/ (st.pos = Len(s) /\ s[st.pos] = "\n") THEN <<st>> ELSE <<>>
    [] n.t = "b" ->
         IF (st.pos > 1 /\ IsWord(s[st.pos - 1])) # (st.pos <= Len(s) /\ IsWord(s[st.pos]))
         THEN <<st>> ELSE <<>>

\* the nodes one after the other, each from every way the ones before it
\* match: the first half of the nodes, then the second half
EndsSeq(nodes, s, ways) ==
  IF nodes = <<>> \/ ways = <<>> THEN ways
  ELSE IF Len(nodes) = 1
    THEN Distinct(Flatten([k \in DOMAIN ways |-> Ends(nodes[1], s, ways[k])]))
  ELSE LET half == Len(nodes) \div 2
           first == EndsSeq(SubSeq(nodes, 1, half), s, ways)
       IN  IF first = <<>> THEN <<>>
           ELSE EndsSeq(SubSeq(nodes, half + 1, Len(nodes)), s, first)

\* min to max repetitions of r (any number when max < 0): more repetitions
\* first when greedy, fewer first when lazy
EndsRep(r, min, max, lazy, s, st) ==
  LET once == IF max = 0 THEN <<>> ELSE SelectSeq(Ends(r, s, st), LAMBDA w : w.pos > st.pos)
      more == Flatten([k \in DOMAIN once |->
                         EndsRep(r, IF min > 0 THEN min - 1 ELSE 0,
                                 IF max < 0 THEN -1 ELSE max - 1, lazy, s, once[k])])
      none == IF min = 0 THEN <<st>> ELSE <<>>
  IN  IF lazy THEN none \o more ELSE more \o none

\* the match that starts at j and ends in the first of the ways
First(j, ways) ==
  IF ways = <<>> THEN NoMatch
  ELSE [ok |-> TRUE, start |-> j, end |-> ways[1].pos, g |-> ways[1].g]

\* the first way in which re matches s at position j
Match(re, s, j) == First(j, Ends(re, s, At(j, NoGroups)))

Leftmost(found) ==
  IF found = {} THEN NoMatch
  ELSE CHOOSE m \in found : \A u \in found : m.start <= u.start

\* re.search from position i on: the leftmost match
Search(re, s, i) == Leftmost({m \in {Match(re, s, j) : j \in i..(Len(s) + 1)} : m.ok})

\* a replacement: literal tokens and references to groups
Ref(n) == [ref |-> n]
Tok(tok) == [tok |-> tok]
Group(s, m, n) == SubSeq(s, m.g[n][1], m.g[n][2] - 1)

\* match.expand(repl)
Expand(repl, s, m) ==
  Flatten([k \in DOMAIN repl |->
             IF "ref" \in DOMAIN repl[k] THEN Group(s, m, repl[k].ref) ELSE <<repl[k].tok>>])

RECURSIVE SubFrom(_, _, _, _)
\* the text from i on with the match m replaced, and the matches after it
SubMatch(re, repl, s, i, m) ==
  IF ~m.ok THEN SubSeq(s, i, Len(s))
  ELSE IF m.end = m.start
    THEN Expand(repl, s, m) \o SubSeq(s, m.start, m.start) \o SubFrom(re, repl, s, m.start + 1)
  ELSE SubSeq(s, i, m.start - 1) \o Expand(repl, s, m) \o SubFrom(re, repl, s, m.end)

SubFrom(re, repl, s, i) == SubMatch(re, repl, s, i, Search(re, s, i))

\* re.sub(re, repl, s); no pattern used here matches in the empty text
Sub(re, repl, s) == IF Len(s) = 0 THEN s ELSE SubFrom(re, repl, s, 1)


S == One("\\s")
Ss == Star(S)
Sp == Plus(S)
W == One("\\w")
Wp == Plus(W)
BB == Lit("**")
Lazy == LazyStar(One("."))                  \* .*?
Http == Lit("https://")                     \* https?:\/\/
LinkTo(url) == Cat(<<Lit("["), Lazy, Lit("]"), Lit("("), Http>> \o url \o <<Lit(")")>>)

RECURSIVE SubEach(_, _, _)
\* for pattern in patterns: text = re.sub(pattern, repl, text)
SubEach(patterns, repl, s) ==
  IF patterns = <<>> THEN s
  ELSE SubEach(Tail(patterns), repl, Sub(Head(patterns), repl, s))

\* text.split('\n')
SplitLines(s) ==
  LET breaks == {i \in DOMAIN s : s[i] = "\n"}
      break(n) == IF n = 0 THEN 0
                  ELSE IF n > Cardinality(breaks) THEN Len(s) + 1
                  ELSE CHOOSE b \in breaks : Cardinality({c \in breaks : c <= b}) = n
  IN  [n \in 1..(Cardinality(breaks) + 1) |-> SubSeq(s, break(n - 1) + 1, break(n) - 1)]

\* sep.join(parts)
Join(sep, parts) ==
  Flatten([k \in 1..(2 * Len(parts) - 1) |->
             IF k % 2 = 1 THEN parts[(k + 1) \div 2] ELSE sep])

\* the positions at which the tokens of part occur in s
Occurrences(part, s) ==
  {i \in 1..(Len(s) - Len(part) + 1) : SubSeq(s, i, i + Len(part) - 1) = part}

\* text.lower()
LowerText(s) == [i \in DOMAIN s |-> LowerTok(s[i])]

\* keyword in line.lower()
HasKeyword(line, keywords) ==
  \E k \in keywords : Occurrences(k, LowerText(line)) # {}

\* the lines that hold none of the keywords
DropLines(s, keywords) ==
  Join(<<"\n">>, SelectSeq(SplitLines(s), LAMBDA line : ~HasKeyword(line, keywords)))

\* str.strip()
Strip(s) ==
  LET inked == {i \in DOMAIN s : s[i] \notin Spaces}
  IN  IF inked = {} THEN <<>>
      ELSE SubSeq(s, CHOOSE i \in inked : \A j \in inked : i <= j,
                  CHOOSE i \in inked : \A j \in inked : i >= j)

\* str.replace(old, new), old not empty: re.sub of old taken literally
Replace(s, old, new) ==
  Sub(Cat([i \in DOMAIN old |-> Lit(old[i])]), [i \in DOMAIN new |-> Tok(new[i])], s)

\* ------------------------------------------------------- MarkdownCleaner
_normalize_line_breaks(text) ==
  Replace(Replace(text, <<"\r", "\n">>, <<"\n">>), <<"\r">>, <<"\n">>)

article_patterns ==
  << Cat(<<BB, Ss, LitI("READ"), Sp, LitI("MORE"), Ss, Lit(":"), Ss, BB, Ss,
           LinkTo(<<Lazy>>)>>),
     Cat(<<Lit("["), LitI("ALSO"), Sp, LitI("READ"), Lit(":"), Lazy, Lit("]"),
           Lit("("), Http, Lazy, Lit(")")>>),
     Cat(<<BB, Ss, LitI("RELATED"), Opt(Lit(":")), Ss, BB, Ss, LinkTo(<<Lazy>>)>>),
     Cat(<<BB, Ss, LitI("CHECK"), Sp, LitI("OUT"), Opt(Lit(":")), Ss, BB, Ss,
           LinkTo(<<Lazy>>)>>) >>

_remove_other_article_promotions(text) == SubEach(article_patterns, <<>>, text)

footer_patterns ==
  << Cat(<<LitI("For"), Sp, LitI("more"), Sp, OneOfI({"updates", "news", "information"}),
           Sp, LitI("on"), Lazy, LitI("visit"), Sp, LitI("our"), Sp, LitI("website")>>),
     Cat(<<LitI("Don't"), Sp, LitI("forget"), Sp, LitI("to"), Sp,
           OneOfI({"follow", "subscribe", "check"}), Sp, LitI("us"), Sp, LitI("on")>>),
     Cat(<<LitI("Copyright"), Sp, Lit("&copy;"), Sp, OneOf(Digits4), Lazy,
           LitI("All"), Sp, LitI("rights"), Sp, LitI("reserved")>>),
     Cat(<<Lit("&copy;"), Lit(" "), OneOf(Digits4), Opt(Cat(<<Lit("&ndash;"), OneOf(Digits4)>>)),
           Sp, Plus(Cat(<<Wp, Sp>>)), Lit("."), Sp, LitI("All"), Sp, LitI("rights"), Sp,
           LitI("reserved"), Lit(".")>>) >>

_remove_footer_elements(text) == SubEach(footer_patterns, <<>>, text)

_fix_bold_formatting(text) ==
  LET t1 == Sub(Cat(<<BB, Sp, BB>>), <<Tok(" ")>>, text)
      t2 == Sub(Cat(<<BB, Lit(")"), Sp, BB>>), <<Tok("**"), Tok(")"), Tok(" ")>>, t1)
      t3 == Sub(Cat(<<BB, Ss, Lit(","), Ss, BB>>), <<Tok(","), Tok(" ")>>, t2)
      t4 == Sub(Cat(<<BB, Sp, Grp(1, Wp), BB>>), <<Tok("**"), Ref(1), Tok("**")>>, t3)
      t5 == Sub(Cat(<<Grp(1, Wp), Sp, BB>>), <<Ref(1), Tok("**")>>, t4)
      t6 == Sub(Cat(<<BB, Ss, Grp(1, One("[.,;:!?]"))>>), <<Ref(1)>>, t5)
  IN  Sub(Cat(<<BB, BB>>), <<Tok("**")>>, t6)

Team == Cat(<<Wp, Star(Cat(<<Sp, Wp>>))>>)          \* \w+(?:\s+\w+)*
team_match_pattern ==
  Cat(<<Grp(1, Team), Sp, Lit("("), Grp(2, Wp), Lit(")"), Sp,
        Alt(<<Lit("vs"), Lit("versus"), Cat(<<Lit("v"), Lit("/"), Lit("s")>>),
              Cat(<<Lit("will"), Sp, OneOf({"face", "play", "meet"})>>)>>),
        Sp, Grp(3, Team), Sp, Lit("("), Grp(4, Wp), Lit(")")>>)
team_to_heading ==
  <<Tok("#"), Tok("#"), Tok(" "), Ref(1), Tok(" "), Tok("("), Ref(2), Tok(")"), Tok(" "),
    Tok("vs"), Tok(" "), Ref(3), Tok(" "), Tok("("), Ref(4), Tok(")")>>

stadium_pattern ==
  Cat(<<Lit("at"), Sp, Lit("the"), Sp, BB, Ss,
        Grp(1, Cat(<<Plus(One("[\\w\\s]")), Lit("Stadium"), Star(One("[\\w\\s]"))>>)),
        Ss, BB, Sp, Lit("in"), Sp, BB, Ss, Grp(2, Plus(One("[\\w\\s,]"))), Ss, BB>>)
stadium_to_heading ==
  <<Tok("#"), Tok("#"), Tok("#"), Tok(" "), Tok("Venue"), Tok(":"), Tok(" "), Ref(1),
    Tok(" "), Tok("in"), Tok(" "), Ref(2)>>

match_info_pattern ==
  Grp(1, Cat(<<LitI("match"), Sp, LitI("no"), Lit("."), Sp, Grp(2, Plus(One("\\d"))),
               LazyStar(One("[\\s\\S]")), LitI("IPL"), LazyStar(One("[\\s\\S]")),
               OneOf(Digits4)>>))
MatchInformation == <<"#", "#", "#", " ", "Match", " ", "Information", "\n">>

_fix_heading_structure(text) ==
  LET t1 == Sub(team_match_pattern, team_to_heading, text)
      t2 == Sub(stadium_pattern, stadium_to_heading, t1)
      match == Search(match_info_pattern, t2, 1)
  IN  IF Occurrences(<<"match", " ", "no", ".">>, LowerText(t2)) # {} /\ match.ok
      THEN Replace(t2, Group(t2, match, 1), MatchInformation \o Group(t2, match, 1))
      ELSE t2

LogoWords == {"logo", "icon", "badge", "emblem", "symbol"}
Small ==
  Cat(<<OneOfI({"width", "height"}), Lit("="), Opt(Lit("\"")),
        OneOf({"20", "30", "40", "50", "60", "70", "80", "90", "100"}), Opt(Lit("\""))>>)
LazyNot(c) == LazyStar(One(c))
logo_patterns ==
  << Cat(<<Lit("!"), Lit("["), Lazy, OneOfI(LogoWords), Lazy, Lit("]"), Lit("("), Lazy, Lit(")")>>),
     Cat(<<Lit("!"), Lit("["), Lazy, Lit("]"), Lit("("), Lazy, OneOfI(LogoWords), Lazy, Lit(")")>>),
     Cat(<<Lit("!"), Lit("["), Lazy, Lit("]"), Lit("("), Lazy, Small, Lazy, Lit(")")>>),
     Cat(<<Lit("!"), Lit("["), Lit("]"), Lit("("), Lazy, Lit(")")>>),
     Cat(<<Lit("<"), LitI("img"), LazyNot("[^>]"), OneOfI(LogoWords), LazyNot("[^>]"), Lit(">")>>),
     Cat(<<Lit("<"), LitI("img"), LazyNot("[^>]"), Small, LazyNot("[^>]"), Lit(">")>>) >>

_remove_logos(text) == SubEach(logo_patterns, <<>>, text)

link_pattern ==
  Cat(<<Lit("["), Grp(1, Plus(One("[^\\]]"))), Lit("]"),
        Lit("("), Grp(2, Plus(One("[^)]"))), Lit(")")>>)

_remove_general_links(text) == Sub(link_pattern, <<Ref(1)>>, text)

_clean_whitespace(text) ==
  LET t1 == Sub(Rep(Lit("\n"), 3, -1, FALSE), <<Tok("\n"), Tok("\n")>>, text)
      t2 == Sub(Cat(<<Plus(Lit(" ")), Lit("\n")>>), <<Tok("\n")>>, t1)
      t3 == Sub(Cat(<<Grp(1, Cat(<<Lit("\n"), Rep(Lit("#"), 1, 3, FALSE), Lit(" "),
                                   Plus(One("."))>>)),
                      Lit("\n"), NotAhead("[#\\n]")>>),
                <<Ref(1), Tok("\n"), Tok("\n")>>, t2)
      t4 == Sub(Rep(Lit(" "), 2, -1, FALSE), <<Tok(" ")>>, t3)
  IN  Strip(t4)

Months ==
  {"Jan", "January", "Feb", "February", "Mar", "March", "Apr", "April", "May", "Jun",
   "June", "Jul", "July", "Aug", "August", "Sep", "September", "Oct", "October", "Nov",
   "November", "Dec", "December"}
\* the tokens of two to four capital letters
Capitals == {"UTC", "IST", "MI", "CSK", "READ", "MORE", "ALSO", "OUT", "BET", "NOW", "WIN",
             "IPL", "LSG", "RCB"}

date_pattern ==
  Cat(<<Grp(1, OneOf(Digits12)), Sp, Grp(2, OneOf(Months)), Opt(Lit(",")), Sp,
        Grp(3, OneOf(Digits4)), Ss, Opt(Lit("&bull;")), Ss,
        Grp(4, OneOf(Digits12)), Lit(":"), Grp(5, OneOf(Digits2)), Ss,
        Opt(Grp(6, OneOf({"am", "pm"}))), Ss, Opt(Grp(7, OneOf(Capitals)))>>)

\* text.split('\n\n', 2)
SplitParagraphs(s) ==
  LET breaks(t) == Occurrences(<<"\n", "\n">>, t)
      first(t) == CHOOSE i \in breaks(t) : \A j \in breaks(t) : i <= j
  IN  IF breaks(s) = {} THEN <<s>>
      ELSE LET rest == SubSeq(s, first(s) + 2, Len(s))
           IN  IF breaks(rest) = {} THEN <<SubSeq(s, 1, first(s) - 1), rest>>
               ELSE <<SubSeq(s, 1, first(s) - 1), SubSeq(rest, 1, first(rest) - 1),
                      SubSeq(rest, first(rest) + 2, Len(rest))>>

_extract_article_date(text) ==
  LET date_match == Search(date_pattern, text, 1)
      original_date_str == SubSeq(text, date_match.start, date_match.end - 1)
      group(n) == Group(text, date_match, n)
      clean_date ==
        <<"Published", " ", "on", " ">> \o group(1) \o <<" ">> \o group(2) \o <<" ">>
        \o group(3) \o <<" ", "at", " ">> \o group(4) \o <<":">> \o group(5)
        \o (IF group(6) # <<>> THEN <<" ">> \o group(6) ELSE <<>>)
        \o (IF group(7) # <<>> THEN <<" ">> \o group(7) ELSE <<>>)
      removed == Replace(Replace(text, original_date_str, clean_date), clean_date, <<>>)
      text_parts == SplitParagraphs(removed)
  IN  IF ~date_match.ok THEN text
      ELSE IF Len(text_parts) >= 2
        THEN text_parts[1] \o <<"\n", "\n">> \o clean_date \o <<"\n", "\n">>
             \o Join(<<"\n", "\n">>, Tail(text_parts))
      ELSE clean_date \o <<"\n", "\n">> \o removed

img_pattern ==
  Cat(<<Lit("!"), Lit("["), Grp(1, Lazy), Lit("]"), Lit("("), Grp(2, Lazy), Lit(")")>>)

\* urlparse(url): scheme + '://' + netloc + path
UrlWithoutQuery(url) ==
  LET cut(u, marks) ==
        IF \E i \in DOMAIN u : u[i] \in marks
        THEN SubSeq(u, 1, (CHOOSE i \in DOMAIN u :
                             u[i] \in marks /\ \A j \in 1..(i - 1) : u[j] \notin marks) - 1)
        ELSE u
      path(u) == cut(cut(u, {"#"}), {"?"})
      slashes(u) == {i \in DOMAIN u : u[i] = "/"}
      params(u) == {i \in DOMAIN u : u[i] = ";" /\ \A j \in slashes(u) : j < i}
      noparams(u) ==
        IF params(u) = {} THEN u
        ELSE SubSeq(u, 1, (CHOOSE i \in params(u) : \A j \in params(u) : i <= j) - 1)
  IN  IF url # <<>> /\ Head(url) = "https://"
      THEN <<"https://">> \o noparams(path(Tail(url)))
      ELSE <<"://">> \o noparams(path(url))

clean_image_ref(text, match) ==
  LET alt_text == Strip(Group(text, match, 1))
      url == Strip(Group(text, match, 2))
      alt1 == Sub(Cat(<<Sp, Lit("image"), End>>), <<>>, alt_text)
      alt2 == Sub(Cat(<<WordEdge, Lit("image"), WordEdge, Sp>>), <<>>, alt1)
      url1 == Replace(UrlWithoutQuery(url), <<" ">>, <<"%20">>)
      clean_url == Sub(Cat(<<Lit("."), Sp>>), <<Tok(".")>>, url1)
  IN  <<"!", "[">> \o alt2 \o <<"]", "(">> \o clean_url \o <<")">>

RECURSIVE CleanImagesFrom(_, _)
CleanImagesFrom(text, i) ==
  LET m == Search(img_pattern, text, i)
  IN  IF ~m.ok THEN SubSeq(text, i, Len(text))
      ELSE SubSeq(text, i, m.start - 1) \o clean_image_ref(text, m)
           \o CleanImagesFrom(text, m.end)

_clean_image_references(text) == CleanImagesFrom(text, 1)

_fix_text_formatting(text) ==
  LET t1 == Sub(Cat(<<Grp(1, Wp), Ss, BB, Ss, Lit(","), Ss, BB, Ss, Grp(2, Wp)>>),
                <<Ref(1), Tok(","), Tok(" "), Ref(2)>>, text)
      t2 == Sub(Cat(<<Grp(1, Plus(One("\\d"))), Ss, BB, Ss, Lit(":"), Ss, BB, Ss,
                      Grp(2, Plus(One("\\d")))>>),
                <<Ref(1), Tok(":"), Ref(2)>>, t1)
      t3 == Sub(Cat(<<Sp, Grp(1, One("[.,;:!?]"))>>), <<Ref(1)>>, t2)
      t4 == Sub(Cat(<<Lit("in"), Sp, BB, Ss, Grp(1, Wp), Ss, BB, Ss, Lit(","), Ss, BB, Ss,
                      Grp(2, Wp), Ss, BB>>),
                <<Tok("in"), Tok(" "), Tok("**"), Ref(1), Tok(","), Tok(" "), Ref(2), Tok("**")>>,
                t3)
      t5 == Sub(Cat(<<Grp(1, Wp), Sp, Lit("Super"), Sp, Lit("Giants"), Sp, Lit("("), Ss,
                      Lit("LSG"), Ss, Lit(")")>>),
                <<Tok("Lucknow"), Tok(" "), Tok("Super"), Tok(" "), Tok("Giants"), Tok(" "),
                  Tok("("), Tok("LSG"), Tok(")")>>, t4)
      t6 == Sub(Cat(<<Lit("Royal"), Sp, Lit("Challengers"), Sp, Lit("Bengaluru"), Sp,
                      Lit("("), Ss, Lit("RCB"), Ss, Lit(")")>>),
                <<Tok("Royal"), Tok(" "), Tok("Challengers"), Tok(" "), Tok("Bengaluru"),
                  Tok(" "), Tok("("), Tok("RCB"), Tok(")")>>, t5)
      t7 == Sub(Cat(<<Lit("match"), Sp, Lit("no"), Lit("."), Sp, Grp(1, Plus(One("\\d")))>>),
                <<Tok("match"), Tok(" "), Tok("no"), Tok("."), Tok(" "), Ref(1)>>, t6)
  IN  Sub(Cat(<<Lit("at"), Sp, Lit("the"), Sp, BB, Ss, Grp(1, Team), Sp, Lit("Stadium"),
                Ss, BB>>),
          <<Tok("at"), Tok(" "), Tok("the"), Tok(" "), Tok("**"), Ref(1), Tok(" "),
            Tok("Stadium"), Tok("**")>>, t7)

Shortener ==
  Cat(<<Http, OneOfI({"bit.ly", "tinyurl.com", "goo.gl"}), Lit("/"), Plus(One("[^\\s)]"))>>)
betting_patterns ==
  << Cat(<<BB, Ss, LitI("BET"), Sp, LitI("NOW"), Ss, Lit(":"), Ss, BB, Ss,
           Lit("["), Lazy, Lit("]"), Lit("("), Shortener, Lit(")")>>),
     Cat(<<Lit("["), OneOfI({"Bet", "Claim", "Get", "Grab", "Win"}), Lazy,
           Alt(<<OneOfI({"bonus", "offer", "promotion", "bet"}),
                 Cat(<<LitI("sign"), Opt(OneOf(Spaces \cup {"-"})), LitI("up")>>)>>),
           Lazy, Lit("]"), Lit("("), Shortener, Lit(")")>>),
     Cat(<<BB, Lazy, LitI("WIN"), Sp, LitI("WELCOME"), Sp, LitI("BONUS"), Lazy, BB>>),
     Cat(<<Lit("["), Lazy, OneOfI({"bet", "claim", "win", "bonus", "offer"}), Lazy, Lit("]"),
           Lit("("), Http, Lazy, Lit(")")>>) >>
betting_keywords ==
  { <<"bet", " ", "now">>, <<"welcome", " ", "bonus">>, <<"sign", " ", "up">>, <<"click">>,
    <<"sign", "-", "up">>, <<"bonus", " ", "code">>, <<"free", " ", "bet">>,
    <<"promo", " ", "code">>, <<"deposit">>, <<"betting">>, <<"wagering">>, <<"sportsbook">> }

\* _remove_betting_promotions with "keyword in line" instead of
\* "keyword in line_lower"
_remove_betting_promotions_case_sensitive(text) ==
  Join(<<"\n">>, SelectSeq(SplitLines(SubEach(betting_patterns, <<>>, text)),
                           LAMBDA line : \A k \in betting_keywords : Occurrences(k, line) = {}))

_remove_betting_promotions(text) ==
  DropLines(SubEach(betting_patterns, <<>>, text), betting_keywords)

Networks == {"Twitter", "Facebook", "Instagram", "WhatsApp", "Telegram"}
social_patterns ==
  << Cat(<<Lit("["), LitI("Follow"), Sp, Opt(Cat(<<LitI("The"), Sp>>)), Plus(Cat(<<Wp, Sp>>)),
           LitI("on"), Sp, OneOfI(Networks), Lit("]"), Lit("("), Http, Lazy, Lit(")")>>),
     Cat(<<Lit("["), LitI("Subscribe"), Sp, LitI("to"), Sp, LitI("our"), Sp,
           OneOfI({"YouTube", "Facebook", "Telegram"}), Sp, LitI("channel"), Lit("]"),
           Lit("("), Http, Lazy, Lit(")")>>),
     Cat(<<LitI("Follow"), Sp, Alt(<<LitI("us"), Cat(<<LitI("The"), Sp, Wp>>)>>), Sp,
           LitI("on"), Sp, OneOfI(Networks)>>),
     Cat(<<Http, OneOfI({"sn-now.com", "bit.ly"}), Lit("/"), Wp,
           OneOfI({"WhatsApp", "Facebook", "Twitter", "Instagram"}), Star(W)>>) >>
social_keywords ==
  { <<"follow", " ", "us">>, <<"join", " ", "us">>, <<"subscribe">>, <<"like", " ", "our">>,
    <<"share", " ", "this">>, <<"connect", " ", "with", " ", "us">>,
    <<"stay", " ", "updated">>, <<"don't", " ", "miss">>,
    <<"for", " ", "more", " ", "updates">> }

_remove_social_media_promotions(text) ==
  DropLines(SubEach(social_patterns, <<>>, text), social_keywords)

\* MarkdownCleaner.clean: its methods in the order of their calls
CleanSteps ==
  << "_normalize_line_breaks", "_extract_article_date", "_clean_image_references",
     "_remove_logos", "_remove_general_links", "_fix_text_formatting",
     "_remove_betting_promotions", "_remove_social_media_promotions",
     "_remove_other_article_promotions", "_remove_footer_elements",
     "_fix_bold_formatting", "_fix_heading_structure", "_clean_whitespace" >>

\* self.<method>(text)
Method(name, text) ==
  CASE name = "_normalize_line_breaks" -> _normalize_line_breaks(text)
    [] name = "_extract_article_date" -> _extract_article_date(text)
    [] name = "_clean_image_references" -> _clean_image_references(text)
    [] name = "_remove_logos" -> _remove_logos(text)
    [] name = "_remove_general_links" -> _remove_general_links(text)
    [] name = "_fix_text_formatting" -> _fix_text_formatting(text)
    [] name = "_remove_betting_promotions" -> _remove_betting_promotions(text)
    [] name = "_remove_social_media_promotions" -> _remove_social_media_promotions(text)
    [] name = "_remove_other_article_promotions" -> _remove_other_article_promotions(text)
    [] name = "_remove_footer_elements" -> _remove_footer_elements(text)
    [] name = "_fix_bold_formatting" -> _fix_bold_formatting(text)
    [] name = "_fix_heading_structure" -> _fix_heading_structure(text)
    [] name = "_clean_whitespace" -> _clean_whitespace(text)

\* ------------------------------------------------------- the texts cleaned
\* pieces of the markdown of a sports article
Fragments ==
  { <<"**">>, <<" ">>, <<"\n">>, <<"\r", "\n">>, <<"word">>, <<"#", " ">>,
    <<"[", "title", "]", "(", "https://", "u", ")">>,
    <<"**", "READ", " ", "MORE", ":", "**", " ">>,
    <<"!", "[", "team", " ", "logo", "]", "(", "https://", "u", ")">>,
    <<"Bet", " ", "now", " ", "and", " ", "claim", " ", "your", " ", "bonus">>,
    <<"Mumbai", " ", "(", "MI", ")", " ", "vs", " ", "Chennai", " ", "(", "CSK", ")">>,
    <<"08", " ", "May", " ", "2025", " ", "7", ":", "52">> }

RECURSIVE TextsOf(_, _)
\* the texts made of at most n of the pieces and at most MaxTokens tokens
TextsOf(pieces, n) ==
  IF n = 0 THEN {<<>>}
  ELSE LET shorter == TextsOf(pieces, n - 1)
       IN  shorter \cup {p[1] \o p[2] : p \in {q \in shorter \X pieces :
                                                   Len(q[1]) + Len(q[2]) <= MaxTokens}}

\* the texts made of at most n fragments and at most MaxTokens tokens
Texts(n) == TextsOf(Fragments, n)

\* ---- one method of the cleaner alone, applied once and then again to its
\* own output, for every text of at most MaxFragments fragments
RulesGtoM ==
  { "_remove_other_article_promotions", "_remove_footer_elements", "_remove_logos",
    "_remove_general_links", "_fix_bold_formatting", "_fix_heading_structure",
    "_clean_whitespace" }

InitRule ==
  /\ NoCalls
  /\ html_content = <<>>
  /\ cleaned_text \in Texts(MaxFragments)
  /\ prev = cleaned_text
  /\ applied = <<>>

ApplyRule(r) ==
  /\ Len(applied) < 2
  /\ applied # <<>> => applied[1] = r
  /\ cleaned_text' = Method(r, cleaned_text)
  /\ prev' = cleaned_text
  /\ applied' = Append(applied, r)
  /\ UNCHANGED <<pc, callVars, cache, ret, fetchVars, indexVars, extVars, attempts,
                 html_content>>

NextRule == \E r \in RulesGtoM : ApplyRule(r)

SpecRule == InitRule /\ [][NextRule]_vars

\* ---- _remove_betting_promotions alone, applied once and then again to its
\* own output, for every text of at most MaxPieces pieces of a page that holds
\* betting promotions
BettingPieces ==
  { <<"word">>, <<" ">>, <<"\n">>, <<"**">>,
    <<"BET", " ", "NOW">>,
    <<"Bet", " ", "now", " ", "and", " ", "claim", " ", "your", " ", "bonus">>,
    <<"free", " ", "bet">>,
    <<"[", "Claim", " ", "offer", "]", "(", "https://", "bit.ly", "/", "x", ")">>,
    <<"BET", " ", "NOW", ":", "**", "[", "title", "]", "(", "https://", "bit.ly", "/", "x", ")">>,
    <<"**", "WIN", " ", "WELCOME", " ", "BONUS", "**">> }

InitBetting ==
  /\ NoCalls
  /\ html_content = <<>>
  /\ cleaned_text \in TextsOf(BettingPieces, MaxPieces)
  /\ prev = cleaned_text
  /\ applied = <<>>

NextBetting == ApplyRule("_remove_betting_promotions")

SpecBetting == InitBetting /\ [][NextBetting]_vars

\* ---- _clean_whitespace alone, applied once and then again to its own
\* output, for every text of at most MaxBlanks words, spaces, line breaks and
\* heading marks
BlankPieces == {<<"word">>, <<" ">>, <<"\n">>, <<"#">>}

InitWhitespace ==
  /\ NoCalls
  /\ html_content = <<>>
  /\ cleaned_text \in TextsOf(BlankPieces, MaxBlanks)
  /\ prev = cleaned_text
  /\ applied = <<>>

NextWhitespace == ApplyRule("_clean_whitespace")

SpecWhitespace == InitWhitespace /\ [][NextWhitespace]_vars

\* ---- MarkdownCleaner.clean alone, one method call per step, for every text
\* of at most MaxFragments fragments
InitClean ==
  /\ NoCalls
  /\ html_content = <<>>
  /\ cleaned_text \in Texts(MaxFragments)
  /\ prev = cleaned_text
  /\ applied = <<>>

\* the number of methods of the cleaner called so far
Cleaned == Cardinality({i \in DOMAIN applied : applied[i] \in Range(CleanSteps)})

\* cleaned_text = self.<the next method>(cleaned_text)
CleanStep ==
  /\ Cleaned < Len(CleanSteps)
  /\ cleaned_text' = Method(CleanSteps[Cleaned + 1], cleaned_text)
  /\ prev' = cleaned_text
  /\ applied' = Append(applied, CleanSteps[Cleaned + 1])
  /\ UNCHANGED <<pc, callVars, cache, ret, fetchVars, indexVars, extVars, attempts,
                 html_content>>

NextClean == CleanStep

SpecClean == InitClean /\ [][NextClean]_vars

\* ================================================ parse_html_content
\* An HTML document is kept as the list of its elements, in document order;
\* text is a piece of text outside every element.
Element(tag, body, href) == [tag |-> tag, body |-> body, href |-> href]
TextNode(body) == Element("text", body, <<>>)

Headings == {"h1", "h2", "h3", "h4", "h5", "h6"}

Elements ==
  { Element("h2", <<"word">>, <<>>),
    Element("p", <<"Bet", " ", "now">>, <<>>),
    Element("a", <<"title">>, <<"https://", "u">>),
    Element("div", <<"word">>, <<>>),
    Element("script", <<"word">>, <<>>) }

\* the documents of at most MaxElements elements
Pages == SeqsUpTo(Elements, MaxElements)

IsSelected(el) == el.tag \in Headings \cup {"p", "a"}

\* soup.find_all(['h1', 'h2', 'h3', 'h4', 'h5', 'h6', 'p', 'a'])
find_all(html) == SelectSeq(html, IsSelected)

\* str(only_hp): the elements of the list between brackets, comma-separated
ListStr(only_hp) ==
  LET item(i) == IF i = 1 THEN <<only_hp[i]>> ELSE <<TextNode(<<",", " ">>), only_hp[i]>>
      L[n \in 0..Len(only_hp)] == IF n = 0 THEN <<>> ELSE L[n - 1] \o item(n)
  IN  <<TextNode(<<"[">>)>> \o L[Len(only_hp)] \o <<TextNode(<<"]">>)>>

Level(tag) ==
  CASE tag = "h1" -> 1 [] tag = "h2" -> 2 [] tag = "h3" -> 3
    [] tag = "h4" -> 4 [] tag = "h5" -> 5 [] tag = "h6" -> 6

\* the markup of one element: a heading as a #-prefixed line, a link as
\* [text](url), a paragraph as its text, text as it is
ElementMarkdown(el) ==
  IF el.tag \in Headings
    THEN [i \in 1..Level(el.tag) |-> "#"] \o <<" ">> \o el.body \o <<"\n", "\n">>
  ELSE IF el.tag = "a" THEN <<"[">> \o el.body \o <<"]", "(">> \o el.href \o <<")">>
  ELSE IF el.tag = "text" THEN el.body
  ELSE el.body \o <<"\n", "\n">>

\* markdownify(html=...): the markup of the fragment's nodes, in their order
markdownify(nodes) ==
  LET M[n \in 0..Len(nodes)] ==
        IF n = 0 THEN <<>> ELSE M[n - 1] \o ElementMarkdown(nodes[n])
  IN  M[Len(nodes)]

\* MarkdownTextSplitter().split_text on a text shorter than its chunk size:
\* the stripped text as one chunk, no chunk for a blank text
split_text(text) == IF Strip(text) = <<>> THEN <<>> ELSE <<Strip(text)>>

\* mtext += f"{text}\n" for the chunks
JoinChunks(split) ==
  LET J[n \in 0..Len(split)] == IF n = 0 THEN <<>> ELSE J[n - 1] \o split[n] \o <<"\n">>
  IN  J[Len(split)]

\* MarkdownParser.parse of mdclense: the text without its heading and bold
\* markers, stripped
parse(mtext) ==
  Strip(Sub(Cat(<<Plus(Lit("#")), Sp>>), <<>>, Sub(BB, <<>>, mtext)))

\* ---- parse_html_content alone, one statement per step, on every document
\* of at most MaxElements elements
InitParse ==
  /\ NoCalls
  /\ html_content \in Pages
  /\ cleaned_text = <<>>
  /\ prev = <<>>
  /\ applied = <<>>

\* only_hp = soup.find_all(...); markdown = markdownify(html=str(only_hp))
Markdownify ==
  /\ applied = <<>>
  /\ cleaned_text' = markdownify(ListStr(find_all(html_content)))
  /\ prev' = cleaned_text
  /\ applied' = <<"markdownify">>
  /\ UNCHANGED <<pc, callVars, cache, ret, fetchVars, indexVars, extVars, attempts,
                 html_content>>

\* split_text, the loop over the chunks, and parser.parse
ParseChunks ==
  /\ applied # <<>>
  /\ Cleaned = Len(CleanSteps)
  /\ "parse" \notin Range(applied)
  /\ cleaned_text' = parse(JoinChunks(split_text(cleaned_text)))
  /\ prev' = cleaned_text
  /\ applied' = Append(applied, "parse")
  /\ UNCHANGED <<pc, callVars, cache, ret, fetchVars, indexVars, extVars, attempts,
                 html_content>>

NextParse ==
  \/ Markdownify
  \/ applied # <<>> /\ CleanStep
  \/ ParseChunks

SpecParse == InitParse /\ [][NextParse]_vars

\* parse_html_content has returned
Parsed == "parse" \in Range(applied)

\* what fetch_article returns for a response of status 200 whose body
\* parse_html_content turned into mrtext
FetchParsed(mrtext) ==
  fetch_article(GoodUrl(1),
                FetchEvent({}, StatusOK, IF mrtext = <<>> THEN "" ELSE "text"), 1)

\* ================================================================ claims
Running(c) == pc[c] \in {"discover", "fetch", "extract", "summarize"}
InFlight(c) == {i \in DOMAIN ext[c] : ext[c][i].st = "inflight"}
Waiting(c) == {i \in DOMAIN ext[c] : ext[c][i].st = "waiting"}
KeyOf(c) == make_key(req[c], query[c])
IsMarker(r) == r.kind \in FailureMarkers
IsText(r) == r.kind = "Source: "
Succeeded(ev) == ev.exc = {} /\ ev.status = StatusOK /\ ev.parsed = "text"
NoDuplicates(l) == \A i, j \in DOMAIN l : i # j => l[i] # l[j]

\* C1: in the extraction stage of a call, for any number of chunks, the number
\* of extraction model calls started and not finished never exceeds 5.
C1_AtMostFiveInFlight ==
  \A c \in Calls : Cardinality(InFlight(c)) <= SemaphoreSize

\* five calls run while a sixth task waits for the semaphore
C1_Witness ==
  /\ Cardinality(InFlight(1)) = SemaphoreSize
  /\ Waiting(1) # {}
  /\ sem[1] = 0

\* C2: once the fan-out over N URLs has returned, there are exactly N
\* outcomes, none of a task still running, as many failure markers as fetches
\* that failed and a text for every other, whatever the number of failures.
C2_FetchAllReturnsAll ==
  \A c \in Calls :
    pc[c] \in {"extract", "summarize"} =>
      /\ Len(results[c]) = Len(urls[c])
      /\ \A i \in DOMAIN results[c] :
           /\ results[c][i] # Pending
           /\ results[c][i].url = urls[c][i]
           /\ IsMarker(results[c][i]) \/ IsText(results[c][i])
           /\ IsMarker(results[c][i]) <=> ~Succeeded(fetchEv[c][i])

\* the fan-out returned although every one of its fetches failed
C2_Witness ==
  /\ pc[1] = "extract"
  /\ Len(results[1]) = MaxFetch
  /\ \A i \in DOMAIN results[1] : IsMarker(results[1][i])
  /\ \E i, j \in DOMAIN results[1] : results[1][i].kind # results[1][j].kind

\* C3: every finished fetch returned a string and raised nothing: the marker
\* of its failure class with its URL, or the text with its Source line.
C3_FetchOutcome ==
  \A c \in Calls : \A i \in DOMAIN results[c] :
    LET r == results[c][i]
        ev == fetchEv[c][i]
    IN  r # Pending =>
          /\ r.kind # "raised"
          /\ r.url = urls[c][i]
          /\ "TimeoutError" \in ev.exc => r.kind = "[Timeout]"
          /\ ("ClientError" \in ev.exc /\ "TimeoutError" \notin ev.exc)
               => r.kind = "[ClientError]"
          /\ (ev.exc # {} /\ ev.exc \cap {"ClientError", "TimeoutError"} = {})
               => r.kind = "[UnhandledError]"
          /\ (ev.exc = {} /\ ev.status # StatusOK)
               => r.kind = "[Fetch Failed: " /\ r.status = ev.status
          /\ (ev.exc = {} /\ ev.status = StatusOK /\ ev.parsed \in {"None", ""})
               => r.kind = "[Parse Failed]"
          /\ Succeeded(ev) => r.kind = "Source: " /\ r.text = c

\* a fetch that could not get the shared client beside one that succeeded
C3_Witness ==
  \E i, j \in DOMAIN results[1] :
    /\ fetchEv[1][i].exc = {"AttributeError"}
    /\ results[1][i].kind = "[UnhandledError]"
    /\ IsText(results[1][j])

\* C4: a call for a query whose run has completed and whose entry has not
\* expired does not run the pipeline again: it is a cache hit.
C4_OneRunWithinTTL ==
  [][\A c1, c2 \in Calls :
       ( /\ pc[c1] = "returned"
         /\ how[c1] = "miss"
         /\ cache[KeyOf(c1)] = Entry("done", c1, ret[c1])
         /\ pc[c2] = "idle"
         /\ pc'[c2] # "idle"
         /\ query'[c2] = query[c1] )
       => how'[c2] = "hit"]_vars

\* C5: two calls address the same cache entry exactly when their query
\* strings are equal.
C5_KeyIsTheQuery ==
  \A c1, c2 \in Calls :
    (pc[c1] # "idle" /\ pc[c2] # "idle") =>
      (KeyOf(c1) = KeyOf(c2) <=> query[c1] = query[c2])

\* C6: no two pipeline runs for the same query string execute at the same
\* moment.
C6_OneRunPerQuery ==
  \A c1, c2 \in Calls :
    (c1 # c2 /\ Running(c1) /\ Running(c2)) => query[c1] # query[c2]

\* C7: no vector store is written or queried by two calls, and the passages
\* a call retrieved are among the documents that call fetched.
C7_OwnIndex ==
  /\ \A id \in DOMAIN stores : Cardinality(stores[id].users) <= 1
  /\ \A c1, c2 \in Calls : (c1 # c2 /\ vs[c1] # 0) => vs[c1] # vs[c2]
  /\ \A c \in Calls : \A i \in DOMAIN chunks[c] :
       chunks[c][i] \in Range(results[c])

\* two searches hold their retrieved texts at the same time
C7_Witness ==
  /\ pc[1] = "extract" /\ pc[2] = "extract"
  /\ IsText(chunks[1][1]) /\ IsText(chunks[2][1])
  /\ chunks[1][1].url = chunks[2][1].url
  /\ stores[vs[1]].users = {1} /\ stores[vs[2]].users = {2}

\* C8: whatever fails, search_web hands its caller a value, not an exception.
C8_NeverRaises ==
  \A c \in Calls : ret[c] # Raised /\ (pc[c] = "returned" => ret[c] # NoValue)

\* a run that failed returned the empty list, another one a summary
C8_Witness ==
  /\ pc[1] = "returned" /\ how[1] = "miss" /\ ret[1] = EmptyList
  /\ pc[2] = "returned" /\ how[2] = "miss" /\ ret[2] = Summary(2)

\* C9: a cache hit runs no stage; in a run a stage starts only when the one
\* before it is complete (discovery, fetch, index, extraction, summarization);
\* and when a run ends the cache holds its entry with the returned result.
C9_StagesInOrder ==
  \A c \in Calls :
    /\ pc[c] \in {"idle", "discover", "waiting"} =>
         /\ urls[c] = <<>> /\ results[c] = <<>>
         /\ vs[c] = 0 /\ ext[c] = <<>> /\ facts[c] = <<>>
    /\ pc[c] = "fetch" =>
         /\ svc[c] # NoAnswer /\ urls[c] # <<>>
         /\ vs[c] = 0 /\ ext[c] = <<>> /\ facts[c] = <<>>
    /\ pc[c] \in {"extract", "summarize"} =>
         /\ \A i \in DOMAIN results[c] : results[c][i] # Pending
         /\ vs[c] # 0 /\ stores[vs[c]].ntotal = 0
    /\ pc[c] = "extract" => facts[c] = <<>>
    /\ pc[c] = "summarize" =>
         /\ \A i \in DOMAIN ext[c] : ext[c][i].st = "done"
         /\ Len(facts[c]) = Len(chunks[c])

C9_HitAndStore ==
  \A c \in Calls :
    /\ (pc[c] = "idle" /\ how'[c] = "hit") =>
         /\ pc'[c] = "returned"
         /\ UNCHANGED <<cache, fetchVars, indexVars, extVars>>
    /\ (Running(c) /\ pc'[c] = "returned") =>
         cache'[KeyOf(c)] = Entry("done", c, ret'[c])

C10_DiscoverFilters ==
  \A c \in Calls :
    /\ NoDuplicates(urls[c])
    /\ Len(urls[c]) <= MaxUrls
    /\ \A i \in DOMAIN urls[c] :
         /\ urls[c][i].scheme = "https://"
         /\ Lower(urls[c][i].ext) # ".pdf"
         /\ DomainsIn(urls[c][i].host) \cap Blocklist = {}
         /\ urls[c][i] \notin skip_set

\* the service listed more than six eligible results and six URLs came back
C10_Witness ==
  /\ pc[1] = "fetch"
  /\ Len(Filtered(svc[1].results)) > MaxUrls
  /\ Len(urls[1]) = MaxUrls

\* C11: get_news_urls returns the empty list and raises nothing both when the
\* search service answers with a status other than 200 and when the request
\* fails at transport level or the body cannot be decoded.
C11_DiscoverDegrades ==
  \A c \in Calls :
    (pc[c] = "discover" /\ (svc[c].fault # "none" \/ svc[c].status # StatusOK)) =>
      \A d \in get_news_urls(svc[c]) : ~d.raised /\ d.urls = <<>>

IsErrorText(f) == f.kind = "Error extracting information: "

\* C12: gather_extracted_info raises nothing and yields one fact per chunk in
\* the order of the chunks, whatever the order in which the calls end: the
\* error text for a call that failed, the model's output for every other.
C12_FactsInOrder ==
  \A c \in Calls :
    /\ \A i \in DOMAIN ext[c] :
         ext[c][i].st = "done" =>
           /\ ext[c][i].out.kind # "raised"
           /\ ext[c][i].call = "raised" =>
                ext[c][i].out = Fact("Error extracting information: ", chunks[c][i])
           /\ ext[c][i].call = "returned" => ext[c][i].out = Fact("fact", chunks[c][i])
    /\ pc[c] = "summarize" =>
         /\ Len(facts[c]) = Len(chunks[c])
         /\ \A i \in DOMAIN facts[c] :
              /\ facts[c][i].chunk = chunks[c][i]
              /\ IsErrorText(facts[c][i]) <=> ext[c][i].call = "raised"

\* the facts of MaxChunks chunks are joined, an error text among them
C12_Witness ==
  /\ pc[1] = "summarize"
  /\ Len(facts[1]) = MaxChunks
  /\ IsErrorText(facts[1][1])
  /\ facts[1][MaxChunks] = Fact("fact", ChunkOf(MaxChunks))

IsString(v) == v.kind \in {"summary", "placeholder"}

\* C13: in a run the summarization model is called once, after all extraction
\* calls have finished and with their joined facts; and when that call fails
\* the top-level call raises nothing and returns a string.
C13_SummaryIsString ==
  [][\A c \in Calls :
       /\ pc'[c] = "summarize" =>
            /\ attempts'[c].summarize = 1
            /\ \A i \in DOMAIN ext'[c] : ext'[c][i].st = "done"
            /\ facts'[c] = [i \in DOMAIN ext'[c] |-> ext'[c][i].out]
       /\ (pc[c] = "summarize" /\ pc'[c] = "returned") =>
            /\ ret'[c] # Raised
            /\ IsString(ret'[c])]_vars

Min(a, b) == IF a < b THEN a ELSE b
Indexed(c) == stores[vs[c]].docstore

\* C14: with n documents in the index and k configured, the retrieval step
\* yields min(k, n) texts, each one of the indexed documents, when n > 0, and
\* the single fallback marker when n = 0.
C14_TopKOrFallback ==
  \A c \in Calls :
    pc[c] = "extract" =>
      /\ Len(Indexed(c)) > 0 =>
           /\ Len(chunks[c]) = Min(NUMBER_OF_POINTS, Len(Indexed(c)))
           /\ \A i \in DOMAIN chunks[c] : chunks[c][i] \in Range(Indexed(c))
           /\ NoDuplicates(chunks[c]) \/ ~NoDuplicates(Indexed(c))
      /\ Len(Indexed(c)) = 0 => chunks[c] = <<NoRelevant>>

\* k of more documents were retrieved
C14_Witness ==
  /\ pc[1] = "extract"
  /\ Len(Indexed(1)) > NUMBER_OF_POINTS
  /\ Len(chunks[1]) = NUMBER_OF_POINTS

\* nothing was indexed and the fallback marker is the one chunk
C14_WitnessEmpty ==
  /\ pc[1] = "extract"
  /\ results[1] # <<>>
  /\ Len(Indexed(1)) = 0
  /\ chunks[1] = <<NoRelevant>>

\* C15: the documents of the index of a search are the non-blank texts of its
\* successful fetches: no failure marker is indexed, retrieved or handed to an
\* extraction call.
C15_NoMarkerIndexed ==
  \A c \in Calls :
    pc[c] \in {"extract", "summarize"} =>
      /\ Indexed(c) = SelectSeq(results[c], IsText)
      /\ \A i \in DOMAIN chunks[c] : ~IsMarker(chunks[c][i])
      /\ \A i \in DOMAIN ext[c] : ~IsMarker(ext[c][i].out.chunk)

\* C16: whatever the order in which the fetches end, the i-th outcome of the
\* fan-out is the outcome of the i-th URL handed to it.
C16_OutcomesInUrlOrder ==
  \A c \in Calls :
    /\ Len(results[c]) = Len(urls[c])
    /\ \A i \in DOMAIN results[c] :
         results[c][i] # Pending =>
           results[c][i] = fetch_article(urls[c][i], fetchEv[c][i], c)

\* the fetch of the last URL ended before the one of the first URL, and its
\* outcome is the last of the list
C16_Witness ==
  /\ pc[1] = "fetch"
  /\ Len(urls[1]) = MaxFetch
  /\ results[1][1] = Pending
  /\ results[1][MaxFetch] # Pending
  /\ results[1][MaxFetch].url = GoodUrl(MaxFetch)

\* C17: in a run the search service is asked at most once, every URL at most
\* once, the extraction model once per retrieved chunk and the summarization
\* model at most once, whatever fails.
C17_NoRetry ==
  \A c \in Calls :
    /\ attempts[c].search <= 1
    /\ \A i \in DOMAIN attempts[c].fetch : attempts[c].fetch[i] <= 1
    /\ \A i \in DOMAIN attempts[c].extract : attempts[c].extract[i] <= 1
    /\ attempts[c].summarize <= 1
    /\ Running(c) => attempts[c].search = 1
    /\ pc[c] \in {"fetch", "extract", "summarize"} =>
         attempts[c].fetch = [i \in DOMAIN urls[c] |-> 1]
    /\ pc[c] = "summarize" =>
         /\ attempts[c].extract = [i \in DOMAIN chunks[c] |-> 1]
         /\ attempts[c].summarize = 1

\* a run reached its summarization call after a failed fetch and a failed
\* extraction call, with one request sent for each
C17_Witness ==
  /\ pc[1] = "summarize"
  /\ IsMarker(results[1][1])
  /\ ext[1][1].call = "raised"
  /\ attempts[1] = Attempts(1, <<1>>, <<1>>, 1)

\* C20: each of the cleaning rules g to m, taken alone, is idempotent: applied
\* to its own output it changes nothing, r(r(t)) = r(t), for every text t.
C20_RulesIdempotent ==
  Len(applied) = 2 => cleaned_text = prev

\* the rules a to m in the order the specification lists them
RulesAtoM ==
  << "_normalize_line_breaks", "_extract_article_date", "_clean_image_references",
     "_fix_text_formatting", "_remove_betting_promotions",
     "_remove_social_media_promotions", "_remove_other_article_promotions",
     "_remove_footer_elements", "_remove_logos", "_remove_general_links",
     "_fix_bold_formatting", "_fix_heading_structure", "_clean_whitespace" >>

Position(rule) == CHOOSE i \in DOMAIN applied : applied[i] = rule

\* C19: clean applies its rules in the order a to m: at every point the rules
\* applied so far are the first ones of that list; in particular logo removal
\* and hyperlink stripping come after the betting, social-media, read-more and
\* footer removals.
C19_RulesInListedOrder ==
  /\ applied = SubSeq(RulesAtoM, 1, Len(applied))
  /\ \A late \in {"_remove_logos", "_remove_general_links"} :
       \A early \in {"_remove_betting_promotions", "_remove_social_media_promotions",
                     "_remove_other_article_promotions", "_remove_footer_elements"} :
         (late \in Range(applied) /\ early \in Range(applied)) =>
           Position(early) < Position(late)

\* C18: for an HTML document without any heading, paragraph or anchor element
\* (the empty document included) parse_html_content returns an empty value and
\* fetch_article reports the parse failure, never a text.
C18_NoContentParseFailed ==
  (Parsed /\ find_all(html_content) = <<>>) =>
    /\ cleaned_text = <<>>
    /\ FetchParsed(cleaned_text).kind = "[Parse Failed]"

\* the positions of the line breaks of a text, and the n-th of them (0 before
\* the first line, one past the text after the last)
Breaks(s) == {i \in DOMAIN s : s[i] = "\n"}
NthBreak(s, n) ==
  IF n = 0 THEN 0
  ELSE IF n > Cardinality(Breaks(s)) THEN Len(s) + 1
  ELSE CHOOSE b \in Breaks(s) : Cardinality({c \in Breaks(s) : c <= b}) = n

\* the matches of the betting patterns in s, at every position
BettingMatches(s) ==
  {m \in {Match(betting_patterns[p], s, j) : p \in DOMAIN betting_patterns, j \in 1..Len(s)} :
     m.ok}

\* a match of a betting pattern holds a token of line n of s or its line break
Touched(s, n) ==
  \E m \in BettingMatches(s) :
    m.start <= NthBreak(s, n) /\ m.end > NthBreak(s, n - 1) + 1

\* the lines of s without keyword and without pattern match, in their order
PlainLines(s) ==
  LET lines == SplitLines(s)
      plain == {n \in DOMAIN lines :
                  ~HasKeyword(lines[n], betting_keywords) /\ ~Touched(s, n)}
  IN  [r \in 1..Cardinality(plain) |->
         lines[CHOOSE k \in plain : Cardinality({j \in plain : j <= k}) = r]]

RECURSIVE IsSubseq(_, _)
\* a is b without some of its elements
IsSubseq(a, b) ==
  IF a = <<>> THEN TRUE
  ELSE IF b = <<>> THEN FALSE
  ELSE IF Head(a) = Head(b) THEN IsSubseq(Tail(a), Tail(b))
  ELSE IsSubseq(a, Tail(b))

C22_AllAdmittedAndDone ==
  /\ [](sem[1] = SemaphoreSize - Cardinality(InFlight(1)))
  /\ \A i \in 1..MaxChunks :
       (i \in DOMAIN ext[1] /\ ext[1][i].st = "waiting")
         ~> (i \in DOMAIN ext[1] /\ ext[1][i].st # "waiting")
  /\ <>(pc[1] = "summarize")

\* all MaxChunks tasks were admitted through the SemaphoreSize slots: the
\* first call has ended by a caught exception and the last task runs in its
\* slot, with no slot left
C22_Witness ==
  /\ Len(ext[1]) = MaxChunks
  /\ MaxChunks > SemaphoreSize
  /\ ext[1][1].st = "done" /\ ext[1][1].call = "raised"
  /\ Cardinality(InFlight(1)) = SemaphoreSize
  /\ ext[1][MaxChunks].st = "inflight"
  /\ sem[1] = 0

\* C23: in a call that has queried its index, the index has been reset: the
\* similarity structure holds no vector and the docstore that maps the vectors
\* to the chunks' content holds no document, so that a further query of that
\* object finds nothing.
C23_IndexResetAfterQuery ==
  \A c \in Calls :
    pc[c] \in {"extract", "summarize"} =>
      /\ stores[vs[c]].ntotal = 0
      /\ stores[vs[c]].docstore = <<>>
      /\ \A p \in TopK(stores[vs[c]].ntotal, NUMBER_OF_POINTS) :
           similarity_search(stores[vs[c]], p) = <<>>

\* C24: when the results of the search service hold at least 6 different
\* eligible URLs, get_news_urls returns exactly 6 URLs, all different, also
\* when a URL is repeated among the first 6 eligible results.
C24_SixDistinctUrls ==
  \A c \in Calls :
    (pc[c] = "fetch" /\ DistinctGood(svc[c].results) >= MaxUrls) =>
      /\ Len(urls[c]) = MaxUrls
      /\ NoDuplicates(urls[c])

\* C25: the output of _clean_whitespace has no three line breaks in a row, no
\* line that ends with a space, no two spaces in a row and no whitespace at
\* its start or at its end.
C25_WhitespaceClean ==
  applied # <<>> =>
    /\ \A i \in 1..(Len(cleaned_text) - 2) :
         ~(cleaned_text[i] = "\n" /\ cleaned_text[i + 1] = "\n" /\ cleaned_text[i + 2] = "\n")
    /\ \A i \in 1..(Len(cleaned_text) - 1) :
         /\ ~(cleaned_text[i] = " " /\ cleaned_text[i + 1] = "\n")
         /\ ~(cleaned_text[i] = " " /\ cleaned_text[i + 1] = " ")
    /\ cleaned_text # <<>> =>
         /\ cleaned_text[1] \notin Spaces
         /\ cleaned_text[Len(cleaned_text)] \notin Spaces

\* C26: the semaphore belongs to one invocation of gather_extracted_info: each
\* call has at most SemaphoreSize model calls in flight, and a waiting task of
\* a call that has fewer than that in flight can be admitted whatever the other
\* call's tasks are doing; the two calls together can have twice SemaphoreSize
\* in flight.
C26_GatePerInvocation ==
  \A c \in Calls :
    /\ Cardinality(InFlight(c)) <= SemaphoreSize
    /\ \A i \in Waiting(c) :
         (pc[c] = "extract" /\ Cardinality(InFlight(c)) < SemaphoreSize) => ENABLED Admit(c, i)

C26_Witness ==
  /\ pc[1] = "extract" /\ pc[2] = "extract"
  /\ query[1] # query[2]
  /\ Cardinality(InFlight(1)) = SemaphoreSize
  /\ Cardinality(InFlight(2)) = SemaphoreSize
  /\ Waiting(1) # {}
  /\ Cardinality(InFlight(1)) + Cardinality(InFlight(2)) = 2 * SemaphoreSize

\* C27: a run that ends in the except branch of search leaves its result, the
\* empty list, in the cache entry of its key like any other result; a call
\* that arrives while that entry is there returns the empty list at once and
\* runs no stage; the entry changes only by being removed.
C27_DegradedStored ==
  \A c \in Calls :
    (Running(c) /\ pc'[c] = "returned" /\ ret'[c] = EmptyList) =>
      cache'[KeyOf(c)] = Entry("done", c, EmptyList)

C27_DegradedHit ==
  \A c \in Calls :
    (/\ pc[c] = "idle" /\ pc'[c] # "idle"
     /\ cache[make_key(req'[c], query'[c])].st = "done"
     /\ cache[make_key(req'[c], query'[c])].val = EmptyList) =>
      /\ pc'[c] = "returned" /\ how'[c] = "hit" /\ ret'[c] = EmptyList
      /\ attempts'[c] = NoAttempts
      /\ UNCHANGED <<cache, fetchVars, indexVars, extVars>>

C27_DegradedKept ==
  \A k \in Keys :
    (cache[k].st = "done" /\ cache[k].val = EmptyList) => cache'[k] \in {cache[k], Absent}

C27_DegradedCached ==
  [][C27_DegradedStored /\ C27_DegradedHit /\ C27_DegradedKept]_vars

\* a run that failed, and a later call with its key that was answered with the
\* empty list from the cache
C27_Witness ==
  /\ pc[1] = "returned" /\ how[1] = "miss" /\ ret[1] = EmptyList
  /\ pc[2] = "returned" /\ how[2] = "hit" /\ ret[2] = EmptyList
  /\ KeyOf(2) = KeyOf(1)
  /\ cache[KeyOf(1)] = Entry("done", 1, EmptyList)
  /\ attempts[2] = NoAttempts

\* C28: when get_news_urls returns no URL, the step that receives the answer
\* ends the run: no fetch task and no outcome list exist, the call returns the
\* empty list of the except branch (not a summary, so not one of the fallback
\* chunk), no vector store is created or changed, and no extraction or
\* summarization call is made.
C28_NoUrlsStep ==
  \A c \in Calls :
    (pc[c] = "discover" /\ pc'[c] # "discover" /\ NoUrls(svc[c])) =>
      /\ pc'[c] = "returned"
      /\ ret'[c] = search_web_result(search_except) /\ ret'[c] = EmptyList
      /\ urls'[c] = <<>> /\ results'[c] = <<>>
      /\ vs'[c] = 0 /\ stores' = stores
      /\ chunks'[c] = <<>> /\ ext'[c] = <<>> /\ facts'[c] = <<>>
      /\ attempts'[c].fetch = <<>> /\ attempts'[c].extract = <<>>
      /\ attempts'[c].summarize = 0

C28_NoUrlsDegraded == [][C28_NoUrlsStep]_vars

\* the run of a discovery without URLs has ended with the empty list, and no
\* vector store was ever made
C28_Witness ==
  /\ pc[1] = "returned" /\ how[1] = "miss" /\ ret[1] = EmptyList
  /\ cache[KeyOf(1)] = Entry("done", 1, EmptyList)
  /\ \A c \in Calls : stores[c] = NoStore /\ vs[c] = 0

====
